---- MODULE Spec2Model ----
(***************************************************************************)
(* Device notifier agent: command authorization (discord.rs), the          *)
(* per-identity rate limiter and the command executor (commands.rs), and   *)
(* the audit store (storage.rs) with its encryption (security.rs).         *)
(*                                                                         *)
(* The specifications share the variables:                                 *)
(*   SpecAuth  - DiscordClient::validate_command applied to commands,      *)
(*               configurations and validation times drawn from bounded    *)
(*               sets;                                                     *)
(*   SpecRate  - RateLimiter::can_execute called sequentially at           *)
(*               non-decreasing times;                                     *)
(*   Spec      - concurrent tasks running CommandExecutor::execute_command *)
(*               (FairSpec adds the scheduler's fairness);                 *)
(*   SpecCrypto - concurrent tasks calling initialize_encryption,          *)
(*               encrypt_data, decrypt_data and store_encrypted_data of    *)
(*               one SecurityManager;                                      *)
(*   SpecStore - concurrent tasks calling log_audit_event and              *)
(*               get_audit_logs of one SecureStorage (FairSpecStore adds   *)
(*               the scheduler's fairness);                                *)
(*   SpecStartup - SecureStorage::initialize on the audit_log.enc a new    *)
(*               process run finds;                                        *)
(*   SpecHmac  - generate_hmac and verify_hmac of one SecurityManager;     *)
(*   SpecHistory - concurrent tasks calling store_command_history;         *)
(*   SpecClear - concurrent tasks calling clear_audit_logs, which wipes    *)
(*               audit_log.enc with secure_wipe_file;                      *)
(*   SpecEmergency - emergency_disable, emergency_enable and               *)
(*               is_emergency_disabled on the configuration directory      *)
(*               (config.rs);                                              *)
(*   SpecJwt   - generate_jwt_token and verify_jwt_token of one            *)
(*               SecurityManager;                                          *)
(*   SpecMonitor - callers of EventMonitor::start and EventMonitor::stop   *)
(*               and the monitoring loops they spawn (events.rs,           *)
(*               system.rs; FairSpecMonitor adds the runtime's fairness).  *)
(***************************************************************************)
EXTENDS Integers, Sequences, FiniteSets, TLC

VARIABLES
    config,          \* Config shared by DiscordClient, SecurityManager, SecureStorage
    validated,       \* the last validate_command call: command, time, verdicts
    commands,        \* RateLimiter.commands : identity -> Vec<Instant>
    clock,           \* Instant::now(), in rate-limiter time units
    calls,           \* history of can_execute calls: [task, user, now, result]
    pc,              \* per task: position inside execute_command / get_audit_logs
    cmd,             \* per task: the DiscordCommand being executed
    local,           \* per task: locals of can_execute (now, admit) and of the action
    rate_lock,       \* RwLock<RateLimiter>: the task holding the write guard
    audit_lock,      \* RwLock<VecDeque<AuditLogEntry>>: writer and readers
    audit_log,       \* SecureStorage.audit_log
    command_history, \* CommandExecutor.command_history : command_id -> entry
    dispatched,      \* platform actions invoked: [task, command, now]
    responses,       \* per task: the CommandResponses execute_command returned
    encryption_key,  \* SecurityManager.encryption_key : Option<Vec<u8>>
    key_lock,        \* RwLock<Option<Vec<u8>>>: writer and readers
    audit_file,      \* the file storage/audit_log.enc
    call,            \* per task: the SecurityManager / SecureStorage call in progress
    ops,             \* history of the completed SecurityManager / SecureStorage calls
    pushed,          \* history of the entries log_audit_event pushed, in order
    handle,          \* secure_wipe_file: the open file and the writes made through it
    config_dir,      \* the directory Config::get_config_dir names and its files
    monitoring,      \* the RwLock<bool> flags of SystemManager and EventMonitor
    monitors         \* the monitoring tasks tokio::spawn has started

vars == <<config, validated, commands, clock, calls, pc, cmd, local, rate_lock,
          audit_lock, audit_log, command_history, dispatched, responses,
          encryption_key, key_lock, audit_file, call, ops, pushed, handle,
          config_dir, monitoring, monitors>>

authVars == <<config, validated>>
rateVars == <<commands, clock, calls>>
execVars == <<pc, cmd, local, rate_lock, audit_lock, audit_log, command_history,
              dispatched, responses>>
storeVars == <<encryption_key, key_lock, audit_file, call, ops, pushed, handle>>
envVars == <<config_dir, monitoring, monitors>>

(***************************************************************************)
(* Bounds of the model.                                                    *)
(***************************************************************************)
\* wall-clock ticks per second (chrono keeps nanoseconds)
SubSecond == 2
\* RateLimiter.max_commands of the modelled limiter (10 in CommandExecutor::new)
MaxCommands == 2
\* RateLimiter.window_duration of the modelled limiter, in clock units (60 s in the code)
WindowDuration == 2
\* the monotonic clock runs over 0..MaxTime
MaxTime == 4
\* can_execute calls in one run of SpecRate
MaxCalls == 5
\* the clock runs over 0..MaxExecTime while the tasks of Spec execute
MaxExecTime == 1
\* SecurityManager calls in one run of SpecCrypto
MaxOps == 2
\* completed SecureStorage calls in one run of SpecStore
MaxStoreOps == 1
\* entries log_audit_event pushes in one run of SpecStore
MaxPushes == 3
\* store_command_history calls in one run of SpecHistory
MaxStores == 3
\* emergency_disable, emergency_enable and is_emergency_disabled calls in one run
\* of SpecEmergency
MaxConfigCalls == 4
\* generate_jwt_token and verify_jwt_token calls in one run of SpecJwt
MaxJwtOps == 3
\* monitoring tasks spawned, and EventMonitor::stop calls, in one run of
\* SpecMonitor
MaxMonitors == 4
MaxStops == 1
\* clear_audit_logs calls in one run of SpecClear
MaxClears == 2
\* the length of the audit_log.enc that clear_audit_logs finds runs over 0..MaxFileSize
MaxFileSize == 2

(***************************************************************************)
(* Program constants.                                                      *)
(***************************************************************************)
\* validate_command: time_diff.num_seconds() > 300
FreshnessSeconds == 300

(***************************************************************************)
(* Data: Config (config.rs) and DiscordCommand (discord.rs)                *)
(***************************************************************************)
NoSecret == "<None>"

Users == {"alice", "bob", "c", "bc"}

Secrets == {"k1", "k2"}

CommandType == {"Lock", "Logout", "Ping", "Status"}

CommandIds == {"a", "ab"}

\* Config::default(): nothing enabled but heartbeat and audit logging
DefaultConfig ==
    [remote_commands_enabled |-> FALSE,
     allowed_users           |-> {},
     hmac_secret             |-> NoSecret,
     audit_logging           |-> TRUE]

Configs ==
    [remote_commands_enabled : BOOLEAN,
     allowed_users           : {{}, {"alice"}, {"alice", "c"}},
     hmac_secret             : {NoSecret, "k1"},
     audit_logging           : BOOLEAN]

(***************************************************************************)
(* chrono conversions                                                      *)
(***************************************************************************)
\* Duration::num_seconds: whole seconds, truncated toward zero
NumSeconds(d) ==
    IF d >= 0 THEN d \div SubSecond ELSE -((-d) \div SubSecond)

\* DateTime::timestamp: seconds since the epoch (floor)
Timestamp(t) == t \div SubSecond

Digit(d) == <<"0", "1", "2", "3", "4", "5", "6", "7", "8", "9">>[d + 1]

\* Display of an i64, as format!("{}") prints it
RECURSIVE ToDecimal(_)
ToDecimal(n) ==
    IF n < 0 THEN "-" \o ToDecimal(-n)
    ELSE IF n < 10 THEN Digit(n)
    ELSE ToDecimal(n \div 10) \o Digit(n % 10)

(***************************************************************************)
(* DiscordClient::verify_signature and validate_command                    *)
(***************************************************************************)
\* HMAC-SHA256 as a collision-free keyed function of (key, message): the tag is
\* written out as a term (the keys of Secrets have one length, so it parses one way)
HmacSha256(secret, data) == "hmac(" \o secret \o "," \o data \o ")"

\* base64::encode: injective
Base64Encode(bytes) == "b64:" \o bytes

\* mutant of SignedPayload: the command kind is signed too
SignedPayload_WithKind(c) ==
    c.command \o c.command_id \o c.authorized_user \o ToDecimal(Timestamp(c.timestamp))

\* format!("{}{}{}", command_id, authorized_user, timestamp.timestamp())
SignedPayload(c) ==
    c.command_id \o c.authorized_user \o ToDecimal(Timestamp(c.timestamp))

ExpectedSignature(c, secret) == Base64Encode(HmacSha256(secret, SignedPayload(c)))

\* mutant of verify_signature: any non-empty signature passes
verify_signature_AnySignature(c, secret) == c.signature # ""

verify_signature(c, secret) == c.signature = ExpectedSignature(c, secret)

\* the freshness test of validate_command: not (time_diff.num_seconds() > 300)
Fresh(c, now) == ~(NumSeconds(now - c.timestamp) > FreshnessSeconds)

\* mutant of validate_command: the remote_commands_enabled test is missing
validate_command_NoPolicyCheck(cfg, c, now) ==
    IF c.authorized_user \notin cfg.allowed_users THEN FALSE
    ELSE IF ~Fresh(c, now) THEN FALSE
    ELSE IF cfg.hmac_secret # NoSecret /\ ~verify_signature(c, cfg.hmac_secret) THEN FALSE
    ELSE TRUE

\* mutant of validate_command: the allow-list test is missing
validate_command_NoAllowList(cfg, c, now) ==
    IF ~cfg.remote_commands_enabled THEN FALSE
    ELSE IF ~Fresh(c, now) THEN FALSE
    ELSE IF cfg.hmac_secret # NoSecret /\ ~verify_signature(c, cfg.hmac_secret) THEN FALSE
    ELSE TRUE

validate_command(cfg, c, now) ==
    IF ~cfg.remote_commands_enabled THEN FALSE
    ELSE IF c.authorized_user \notin cfg.allowed_users THEN FALSE
    ELSE IF ~Fresh(c, now) THEN FALSE
    ELSE IF cfg.hmac_secret # NoSecret /\ ~verify_signature(c, cfg.hmac_secret) THEN FALSE
    ELSE TRUE

\* CommandExecutor::validate_command_permissions
validate_command_permissions(cfg, c) ==
    IF ~cfg.remote_commands_enabled THEN FALSE
    ELSE IF c.authorized_user \notin cfg.allowed_users THEN FALSE
    ELSE CASE c.command = "Lock" -> TRUE
           [] c.command = "Logout" -> TRUE
           [] c.command \in {"Ping", "Status"} -> TRUE

\* SecurityManager::get_security_status (the configuration part)
get_security_status(cfg) ==
    [hmac_secret_configured  |-> cfg.hmac_secret # NoSecret,
     remote_commands_enabled |-> cfg.remote_commands_enabled,
     audit_logging_enabled   |-> cfg.audit_logging]

(***************************************************************************)
(* SpecAuth: validate_command on bounded inputs                            *)
(***************************************************************************)
\* the wall-clock time of the validations, in ticks
UtcNow == 1000 * SubSecond

\* ages (now - issued_at, in ticks) around the freshness boundary, both signs
Ages ==
    {0, SubSecond,
     FreshnessSeconds * SubSecond - 1,
     FreshnessSeconds * SubSecond,
     FreshnessSeconds * SubSecond + 1,
     (FreshnessSeconds + 1) * SubSecond,
     -SubSecond,
     -(FreshnessSeconds * SubSecond),
     -((FreshnessSeconds + 1) * SubSecond),
     -(2 * FreshnessSeconds * SubSecond)}

\* what a sender can put into the signature field
SignatureChoices(c) ==
    {ExpectedSignature(c, s) : s \in Secrets}
      \cup {ExpectedSignature([c EXCEPT !.timestamp = c.timestamp + SubSecond], "k1"),
            ExpectedSignature([c EXCEPT !.command_id = "b"], "k1"),
            ""}

Unsigned ==
    [command         : CommandType,
     command_id      : CommandIds,
     authorized_user : Users,
     timestamp       : {UtcNow - a : a \in Ages},
     signature       : {""}]

NoValidation == [verdict |-> "none"]

InitAuth ==
    /\ config \in Configs
    /\ validated = NoValidation

\* one validate_command call (validate_command keeps no state between calls)
ValidateCommand ==
    /\ validated = NoValidation
    /\ \E u \in Unsigned :
       \E sig \in SignatureChoices(u) :
        LET c == [u EXCEPT !.signature = sig] IN
        /\ UNCHANGED config
        /\ validated' = [verdict   |-> "called",
                         command   |-> c,
                         now       |-> UtcNow,
                         accepted  |-> validate_command(config, c, UtcNow),
                         permitted |-> validate_command_permissions(config, c),
                         status    |-> get_security_status(config)]

(***************************************************************************)
(* RateLimiter (commands.rs)                                               *)
(***************************************************************************)
RateUsers == {"alice", "bob"}

\* mutant of Retain: nothing is pruned
Retain_KeepAll(times, window_start) == times

\* Vec::retain(|&time| time > window_start)
Retain(times, window_start) == SelectSeq(times, LAMBDA time : time > window_start)

\* the record of user_id after the pruning of can_execute at time now
PrunedRecord(cmds, user_id, now) == Retain(cmds[user_id], now - WindowDuration)

\* mutant of HasRoom: off by one
HasRoom_OffByOne(user_commands) == Len(user_commands) <= MaxCommands

\* user_commands.len() < self.max_commands
HasRoom(user_commands) == Len(user_commands) < MaxCommands

\* mutant of can_execute: a denied call is recorded too
can_execute_RecordDenied(cmds, user_id, now) ==
    LET user_commands == PrunedRecord(cmds, user_id, now) IN
    [commands |-> [cmds EXCEPT ![user_id] = Append(user_commands, now)],
     result   |-> HasRoom(user_commands)]

\* RateLimiter::can_execute: the new table and the returned value
can_execute(cmds, user_id, now) ==
    LET user_commands == PrunedRecord(cmds, user_id, now) IN
    IF HasRoom(user_commands)
    THEN [commands |-> [cmds EXCEPT ![user_id] = Append(user_commands, now)],
          result   |-> TRUE]
    ELSE [commands |-> [cmds EXCEPT ![user_id] = user_commands],
          result   |-> FALSE]

\* RateLimiter::new: no identity has a record
EmptyTable == [u \in RateUsers |-> <<>>]

\* Instant::now() advances
Tick(max) ==
    /\ clock < max
    /\ clock' = clock + 1

(***************************************************************************)
(* SpecRate: can_execute called sequentially at non-decreasing times       *)
(***************************************************************************)
InitRate ==
    /\ commands = EmptyTable
    /\ clock = 0
    /\ calls = <<>>

CanExecute(user_id) ==
    /\ Len(calls) < MaxCalls
    /\ LET r == can_execute(commands, user_id, clock) IN
       /\ commands' = r.commands
       /\ calls' = Append(calls, [task |-> "seq", user |-> user_id,
                                  now |-> clock, result |-> r.result])
    /\ UNCHANGED clock

(***************************************************************************)
(* tokio::sync::RwLock                                                     *)
(***************************************************************************)
NoTask == "<none>"

Tasks == {"t1", "t2"}

Unlocked == [writer |-> NoTask, readers |-> {}]

\* mutant of WriteLockFree: the guard does not exclude other holders
WriteLockFree_NoExclusion(l) == TRUE

\* write().await is granted when no guard of any kind is held
WriteLockFree(l) == l.writer = NoTask /\ l.readers = {}

\* read().await is granted when no write guard is held
ReadLockFree(l) == l.writer = NoTask

(***************************************************************************)
(* SecureStorage (storage.rs)                                              *)
(***************************************************************************)
\* SecureStorage.max_log_entries of the modelled store (10000 in SecureStorage::new)
max_log_entries == 2

determine_severity(event_type) ==
    CASE event_type \in {"login", "logout", "heartbeat"} -> "Info"
      [] event_type \in {"failed_auth", "rate_limit_exceeded"} -> "Warning"
      [] event_type = "command_executed" -> "Security"
      [] OTHER -> "Info"

\* mutant of MaintainMaxSize: the newest entries are dropped instead of the oldest
MaintainMaxSize_DropNewest(log) ==
    IF Len(log) > max_log_entries THEN SubSeq(log, 1, max_log_entries) ELSE log

\* while audit_log.len() > self.max_log_entries { audit_log.pop_front(); }
RECURSIVE MaintainMaxSize(_)
MaintainMaxSize(log) ==
    IF Len(log) > max_log_entries THEN MaintainMaxSize(Tail(log)) ELSE log

\* get_current_user: the USERNAME / USER of the environment
CurrentUser == "<env user>"

\* the AuditLogEntry log_audit_event builds
AuditLogEntry(event_type, details, now) ==
    [timestamp  |-> now,
     event_type |-> event_type,
     user       |-> CurrentUser,
     details    |-> details,
     severity   |-> determine_severity(event_type),
     source     |-> "agent"]

(***************************************************************************)
(* SecurityManager (security.rs): AES-256-GCM over symbolic bytes          *)
(*                                                                         *)
(* A byte is a string; cipher bytes and tag bytes are written out as terms *)
(* of the key, the nonce and the data, so that two of them are equal only  *)
(* when they were computed from the same key, nonce and data.              *)
(***************************************************************************)
\* let mut nonce_bytes = [0u8; 12]
NonceLen == 12

\* the AES_256_GCM tag: "16 bytes tag" of decrypt_data
TagLen == 16

\* decrypt_data: encrypted_data.len() < 28
MinBlobLen == 28

\* SecurityManager::new: encryption_key is None
NoKey == "<no key>"

\* the 256-bit keys generate_encryption_key can draw (a key is one symbol)
Keys == {"key1", "key2"}

\* the values SystemRandom::fill can put into nonce_bytes
Nonces == {[i \in 1..NonceLen |-> b] : b \in {"n1", "n2"}}

\* Result<_, Box<dyn Error>>
Ok(v) == [ok |-> TRUE, value |-> v, error |-> ""]

Err(e) == [ok |-> FALSE, value |-> <<>>, error |-> e]

\* a byte string written out as one term
RECURSIVE Hex(_)
Hex(bytes) == IF Len(bytes) = 0 THEN "" ELSE Head(bytes) \o "." \o Hex(Tail(bytes))

\* AES-256 in counter mode: byte i of the data combined with the key stream of
\* the key and the nonce (stream is the term that names them)
CtrByte(stream, i, b) == "E[" \o stream \o "|" \o ToDecimal(i) \o "](" \o b \o ")"

KeyStream(key, nonce) == key \o "|" \o Hex(nonce)

AesCtr(key, nonce, data) ==
    LET stream == KeyStream(key, nonce) IN
    [i \in 1..Len(data) |-> CtrByte(stream, i, data[i])]

\* the bytes of a tag after the first
TagRest == [j \in 1..(TagLen - 1) |-> "t" \o ToDecimal(j + 1)]

\* the GCM authentication tag of a ciphertext (Aad::empty()): TagLen bytes, the
\* first of them the term that names key, nonce and ciphertext
GcmTag(key, nonce, ciphertext) ==
    <<"T[" \o KeyStream(key, nonce) \o "](" \o Hex(ciphertext) \o ")">> \o TagRest

\* seal_in_place_append_tag: in_out becomes ciphertext followed by the tag; the
\* value bound to `tag` is the tag
seal_in_place_append_tag(key, nonce, in_out) ==
    LET ciphertext == AesCtr(key, nonce, in_out)
        tag        == GcmTag(key, nonce, ciphertext)
    IN [in_out |-> ciphertext \o tag, tag |-> tag]

\* mutant of encrypt_data: a missing key is generated on the spot
encrypt_data_LazyKey(key, rnd, data) ==
    LET k == IF key = NoKey THEN "key1" ELSE key
        sealed == seal_in_place_append_tag(k, rnd, data)
    IN Ok(rnd \o (sealed.in_out \o sealed.tag))

\* SecurityManager::encrypt_data under the key the manager holds; rnd is what
\* SystemRandom::fill produced for nonce_bytes
encrypt_data(key, rnd, data) ==
    IF key = NoKey THEN Err("Encryption key not initialized")
    ELSE LET sealed == seal_in_place_append_tag(key, rnd, data)
             \* encrypted_data.extend_from_slice(tag.as_ref())
             encrypted_data == sealed.in_out \o sealed.tag
         IN Ok(rnd \o encrypted_data)


(***************************************************************************)
(* serde_json over Vec<AuditLogEntry>: an entry is written as one token    *)
(***************************************************************************)
\* the event types the callers of the store pass
EventTypes == {"test_event", "command_executed"}

\* the details the callers of the store pass (a JSON value, kept as its text)
StoreDetails == "{}"

\* the entries log_audit_event can build while the clock runs over 0..MaxExecTime
EntryUniverse ==
    {AuditLogEntry(ev, StoreDetails, UtcNow + c * SubSecond) :
        ev \in EventTypes, c \in 0..MaxExecTime}

\* serde_json's text of one AuditLogEntry
Json(e) ==
    "{" \o ToDecimal(e.timestamp) \o "," \o e.event_type \o "," \o e.user \o ","
        \o e.details \o "," \o e.severity \o "," \o e.source \o "}"

\* serde_json::to_vec(&logs)
to_vec(logs) == <<"[">> \o [i \in 1..Len(logs) |-> Json(logs[i])] \o <<"]">>

\* serde_json::from_slice::<Vec<AuditLogEntry>>
from_slice(bytes) ==
    IF /\ Len(bytes) >= 2
       /\ bytes[1] = "["
       /\ bytes[Len(bytes)] = "]"
       /\ \A i \in 2..(Len(bytes) - 1) : \E e \in EntryUniverse : Json(e) = bytes[i]
    THEN Ok([i \in 1..(Len(bytes) - 2) |->
               CHOOSE e \in EntryUniverse : Json(e) = bytes[i + 1]])
    ELSE Err("serde_json")

(***************************************************************************)
(* SecurityManager::decrypt_data                                           *)
(***************************************************************************)
\* the bytes plaintexts are made of
PlainBytes == {"a", "b", "[", "]"} \cup {Json(e) : e \in EntryUniverse}

\* the key stream applied to a cipher byte gives back the data byte it hides
CtrInverse(stream, i, c) ==
    IF \E b \in PlainBytes : CtrByte(stream, i, b) = c
    THEN CHOOSE b \in PlainBytes : CtrByte(stream, i, b) = c
    ELSE "D[" \o stream \o "|" \o ToDecimal(i) \o "](" \o c \o ")"

AesCtrInverse(key, nonce, ciphertext) ==
    LET stream == KeyStream(key, nonce) IN
    [i \in 1..Len(ciphertext) |-> CtrInverse(stream, i, ciphertext[i])]

\* mutant of open_in_place: the tag is not compared
open_in_place_NoTagCheck(key, nonce, in_out) ==
    IF Len(in_out) < TagLen THEN Err("Unspecified")
    ELSE LET ciphertext == SubSeq(in_out, 1, Len(in_out) - TagLen)
         IN Ok(AesCtrInverse(key, nonce, ciphertext))

\* OpeningKey::open_in_place: the last TagLen bytes are the received tag
open_in_place(key, nonce, in_out) ==
    IF Len(in_out) < TagLen THEN Err("Unspecified")
    ELSE LET ciphertext == SubSeq(in_out, 1, Len(in_out) - TagLen)
             received   == SubSeq(in_out, Len(in_out) - TagLen + 1, Len(in_out))
         IN IF received # GcmTag(key, nonce, ciphertext) THEN Err("Unspecified")
            ELSE Ok(AesCtrInverse(key, nonce, ciphertext))

\* SecurityManager::decrypt_data under the key the manager holds
decrypt_data(key, encrypted_data) ==
    IF Len(encrypted_data) < MinBlobLen THEN Err("Encrypted data too short")
    ELSE IF key = NoKey THEN Err("Encryption key not initialized")
    ELSE LET nonce_bytes        == SubSeq(encrypted_data, 1, NonceLen)
             encrypted_with_tag == SubSeq(encrypted_data, NonceLen + 1, Len(encrypted_data))
         IN open_in_place(key, nonce_bytes, encrypted_with_tag)

(***************************************************************************)
(* SecurityManager::initialize_encryption                                  *)
(***************************************************************************)
\* mutant of initialize_encryption: the key is replaced on every call
initialize_encryption_Regenerate(key, rnd) == [key |-> rnd, result |-> Ok(<<>>)]

\* the body of initialize_encryption under the write guard; rnd is what
\* generate_encryption_key draws
initialize_encryption(key, rnd) ==
    IF key = NoKey
    THEN [key |-> rnd, result |-> Ok(<<>>)]
    ELSE [key |-> key, result |-> Ok(<<>>)]

(***************************************************************************)
(* SecurityManager::generate_hmac and verify_hmac                          *)
(***************************************************************************)
\* the zero byte
ZeroByte == "00"

\* Hmac::<Sha256>::new_from_slice(secret.as_bytes()): HMAC pads a key shorter than
\* the block of the hash with zero bytes, so the key block of a secret is the
\* secret up to the zero bytes at its end (secrets here are shorter than a block)
RECURSIVE new_from_slice(_)
new_from_slice(secret) ==
    IF Len(secret) > 0 /\ secret[Len(secret)] = ZeroByte
    THEN new_from_slice(SubSeq(secret, 1, Len(secret) - 1))
    ELSE secret

\* mutant of generate_hmac: the secret is left out of the MAC
generate_hmac_Unkeyed(data, secret) == Base64Encode(HmacSha256("", data))

\* general_purpose::STANDARD.encode(mac.finalize().into_bytes())
generate_hmac(data, secret) ==
    Base64Encode(HmacSha256(Hex(new_from_slice(secret)), data))

\* computed_hmac == expected_hmac
verify_hmac(data, secret, expected_hmac) == generate_hmac(data, secret) = expected_hmac

(***************************************************************************)
(* SecurityManager::generate_jwt_token and verify_jwt_token. A token is    *)
(* kept as the sequence of the texts between its dots: format!("{}.{}.{}") *)
(* of three base64 texts, which hold no dot, and token.split('.')          *)
(***************************************************************************)
\* the JSON payloads the callers sign
JwtPayloads == {[sub |-> "alice"], [sub |-> "bob"]}

\* serde_json::Value::to_string of a payload
to_string(value) == "{\"sub\":\"" \o value.sub \o "\"}"

\* json!({"alg": "HS256", "typ": "JWT"}).to_string()
JwtHeader == "{\"alg\":\"HS256\",\"typ\":\"JWT\"}"

\* a text that is not JSON
NotJson == "{"

\* serde_json::from_str: the value whose text this is, or a syntax error
from_str(text) ==
    IF \E value \in JwtPayloads : to_string(value) = text
    THEN Ok(CHOOSE value \in JwtPayloads : to_string(value) = text)
    ELSE Err("json")

\* general_purpose::STANDARD.decode: the bytes whose base64 text this is, or an
\* error
Base64Decode(text) ==
    LET Decoded == {to_string(value) : value \in JwtPayloads} \cup {JwtHeader, NotJson}
    IN IF \E bytes \in Decoded : Base64Encode(bytes) = text
       THEN Ok(CHOOSE bytes \in Decoded : Base64Encode(bytes) = text)
       ELSE Err("base64")

\* mutant of generate_jwt_token: the payload is left out of the signed data
generate_jwt_token_HeaderOnly(payload, secret) ==
    LET header_b64  == Base64Encode(JwtHeader)
        payload_b64 == Base64Encode(to_string(payload))
    IN Ok(<<header_b64, payload_b64,
            Base64Encode(HmacSha256(Hex(new_from_slice(secret)), header_b64))>>)

\* generate_jwt_token: header and payload in base64, signed with HMAC-SHA256
generate_jwt_token(payload, secret) ==
    LET header_b64    == Base64Encode(JwtHeader)
        payload_b64   == Base64Encode(to_string(payload))
        data_to_sign  == header_b64 \o "." \o payload_b64
        signature_b64 == Base64Encode(HmacSha256(Hex(new_from_slice(secret)), data_to_sign))
    IN Ok(<<header_b64, payload_b64, signature_b64>>)

\* verify_jwt_token: three parts, the signature recomputed with generate_hmac,
\* the payload decoded and parsed
verify_jwt_token(token, secret) ==
    IF Len(token) # 3 THEN Err("Invalid JWT token format")
    ELSE LET data_to_verify     == token[1] \o "." \o token[2]
             expected_signature == generate_hmac(data_to_verify, secret)
             payload_bytes      == Base64Decode(token[2])
         IN IF token[3] # expected_signature THEN Err("Invalid JWT signature")
            ELSE IF ~payload_bytes.ok THEN payload_bytes
            ELSE from_str(payload_bytes.value)

(***************************************************************************)
(* The state of the store and of its SecurityManager after new()           *)
(***************************************************************************)
\* audit_log.enc does not exist
NoFile == <<"<no file>">>

NoCall == [op |-> "<none>", arg |-> <<>>]

\* no file is open for wiping
NoHandle == [open |-> FALSE, cursor |-> 0, file_size |-> 0, writes |-> <<>>]

\* the configuration directory after Config::load has saved config.toml: no
\* EMERGENCY_DISABLE file in it
LoadedConfigDir == [known |-> TRUE, exists |-> TRUE, emergency_file |-> FALSE]

\* SystemManager::new and EventMonitor::new: both flags false; writer is the
\* caller of EventMonitor::stop that holds the write guard of the events flag
NotMonitoring == [system |-> FALSE, events |-> FALSE, writer |-> NoTask]

\* no configuration call and no monitoring task is running
IdleEnv ==
    /\ config_dir = LoadedConfigDir
    /\ monitoring = NotMonitoring
    /\ monitors = <<>>

IdleStore ==
    /\ encryption_key = NoKey
    /\ key_lock = Unlocked
    /\ audit_file = NoFile
    /\ call = [t \in Tasks |-> NoCall]
    /\ ops = <<>>
    /\ pushed = <<>>
    /\ handle = NoHandle
    /\ IdleEnv

(***************************************************************************)
(* CommandExecutor (commands.rs): one execute_command call per task        *)
(***************************************************************************)
\* the capacity of the modelled command history (history.len() > 1000 in
\* store_command_history)
HistoryCapacity == 2

\* the commands the tasks submit; the executor reads kind, id and issuer
ExecCommands ==
    {[command |-> k, command_id |-> i, authorized_user |-> u,
      timestamp |-> UtcNow, signature |-> ""] :
        <<k, i, u>> \in {<<"Ping", "a", "alice">>, <<"Lock", "ab", "alice">>,
                         <<"Logout", "a", "bob">>, <<"Status", "ab", "bob">>}}

ExecConfigs ==
    {DefaultConfig} \cup
    [remote_commands_enabled : BOOLEAN,
     allowed_users           : {{"alice"}},
     hmac_secret             : {NoSecret},
     audit_logging           : BOOLEAN]

NoCommand == [command |-> "<none>"]

NoLocals == [now |-> 0, admit |-> FALSE, success |-> FALSE, details |-> "", timestamp |-> 0]

\* the wall clock while the tasks run (one clock unit is one second)
WallClock == UtcNow + clock * SubSecond

\* the table a limiter holds after n admissions of alice at time 0
PriorTable(n) == [u \in RateUsers |-> IF u = "alice" THEN [i \in 1..n |-> 0] ELSE <<>>]

PriorCalls(n) ==
    [i \in 1..n |-> [task |-> "prior", user |-> "alice", now |-> 0, result |-> TRUE]]

Init ==
    /\ config \in ExecConfigs
    /\ validated = NoValidation
    /\ \E n \in 0..MaxCommands :
         /\ commands = PriorTable(n)
         /\ calls = PriorCalls(n)
    /\ clock = 0
    /\ pc = [t \in Tasks |-> "idle"]
    /\ cmd = [t \in Tasks |-> NoCommand]
    /\ local = [t \in Tasks |-> NoLocals]
    /\ rate_lock = Unlocked
    /\ audit_lock = Unlocked
    /\ audit_log = <<>>
    /\ command_history = <<>>
    /\ dispatched = {}
    /\ responses = [t \in Tasks |-> <<>>]
    /\ IdleStore

\* a caller hands a DiscordCommand to execute_command
Submit(t, c) ==
    /\ pc[t] = "idle"
    /\ pc' = [pc EXCEPT ![t] = "rate_wait"]
    /\ cmd' = [cmd EXCEPT ![t] = c]
    /\ UNCHANGED <<authVars, storeVars, envVars, rateVars, local, rate_lock, audit_lock, audit_log,
                   command_history, dispatched, responses>>

\* check_rate_limit: self.rate_limiter.write().await
RateLimiterWrite(t) ==
    /\ pc[t] = "rate_wait"
    /\ WriteLockFree(rate_lock)
    /\ rate_lock' = [rate_lock EXCEPT !.writer = t]
    /\ pc' = [pc EXCEPT ![t] = "rate_check"]
    /\ UNCHANGED <<authVars, storeVars, envVars, rateVars, cmd, local, audit_lock, audit_log,
                   command_history, dispatched, responses>>

\* can_execute, first half: now, retain, and the test of the length
RateCheck(t) ==
    /\ pc[t] = "rate_check"
    /\ LET user_commands == PrunedRecord(commands, cmd[t].authorized_user, clock) IN
       /\ commands' = [commands EXCEPT ![cmd[t].authorized_user] = user_commands]
       /\ local' = [local EXCEPT ![t].now = clock, ![t].admit = HasRoom(user_commands)]
    /\ pc' = [pc EXCEPT ![t] = "rate_record"]
    /\ UNCHANGED <<authVars, storeVars, envVars, clock, calls, cmd, rate_lock, audit_lock, audit_log,
                   command_history, dispatched, responses>>

\* can_execute, second half: push(now) when admitted; the write guard is dropped
\* when check_rate_limit returns
RateRecord(t) ==
    /\ pc[t] = "rate_record"
    /\ commands' = IF local[t].admit
                   THEN [commands EXCEPT ![cmd[t].authorized_user] = Append(@, local[t].now)]
                   ELSE commands
    /\ calls' = Append(calls, [task |-> t, user |-> cmd[t].authorized_user,
                               now |-> local[t].now, result |-> local[t].admit])
    /\ rate_lock' = [rate_lock EXCEPT !.writer = NoTask]
    /\ IF local[t].admit
       THEN /\ pc' = [pc EXCEPT ![t] = "dispatch"]
            /\ local' = local
       ELSE /\ pc' = [pc EXCEPT ![t] = "log"]
            /\ local' = [local EXCEPT ![t].success = FALSE,
                                      ![t].details = "Rate limit exceeded"]
    /\ UNCHANGED <<authVars, storeVars, envVars, clock, cmd, audit_lock, audit_log, command_history,
                   dispatched, responses>>

\* what the action provider can return for a command kind: (success, details)
ActionOutcomes(kind) ==
    CASE kind = "Lock" ->
           {<<TRUE, "Screen locked successfully">>, <<FALSE, "Failed to lock screen: <e>">>}
      [] kind = "Logout" ->
           {<<TRUE, "User logged out successfully">>, <<FALSE, "Failed to logout user: <e>">>}
      [] kind = "Ping" -> {<<TRUE, "Pong! Device is responsive">>}
      [] kind = "Status" -> {<<TRUE, "Status: <info>">>}

\* the match on command_type: lock_screen, logout_user, Ping, get_system_info
Dispatch(t) ==
    /\ pc[t] = "dispatch"
    /\ \E o \in ActionOutcomes(cmd[t].command) :
         local' = [local EXCEPT ![t].success = o[1], ![t].details = o[2]]
    /\ dispatched' = dispatched \cup {[task |-> t, command |-> cmd[t], now |-> WallClock]}
    /\ pc' = [pc EXCEPT ![t] = "log"]
    /\ UNCHANGED <<authVars, storeVars, envVars, rateVars, cmd, rate_lock, audit_lock, audit_log,
                   command_history, responses>>

\* where execute_command continues after log_command returned Ok
AfterLog(t) == IF local[t].admit THEN "store_history" ELSE "respond"

\* mutant of LogAuditEvent: the audit_logging test is missing
LogAuditEvent_AlwaysLog(t) ==
    /\ pc[t] = "log"
    /\ pc' = [pc EXCEPT ![t] = "audit_write_wait"]
    /\ UNCHANGED <<authVars, storeVars, envVars, rateVars, cmd, local, rate_lock, audit_lock, audit_log,
                   command_history, dispatched, responses>>

\* log_command -> log_audit_event: config.read().await and the audit_logging test
LogAuditEvent(t) ==
    /\ pc[t] = "log"
    /\ pc' = [pc EXCEPT ![t] = IF config.audit_logging THEN "audit_write_wait"
                               ELSE AfterLog(t)]
    /\ UNCHANGED <<authVars, storeVars, envVars, rateVars, cmd, local, rate_lock, audit_lock, audit_log,
                   command_history, dispatched, responses>>

\* the details log_command passes
LogDetails(t) ==
    [command_id      |-> cmd[t].command_id,
     command_type    |-> cmd[t].command,
     authorized_user |-> cmd[t].authorized_user,
     success         |-> local[t].success,
     details         |-> local[t].details]

\* log_audit_event: self.audit_log.write().await, push_back, pop_front; the write
\* guard lives until log_audit_event returns
AuditLogWrite(t) ==
    /\ pc[t] = "audit_write_wait"
    /\ WriteLockFree(audit_lock)
    /\ audit_lock' = [audit_lock EXCEPT !.writer = t]
    /\ audit_log' = MaintainMaxSize(
                      Append(audit_log,
                             AuditLogEntry("command_executed", LogDetails(t), WallClock)))
    /\ pc' = [pc EXCEPT ![t] = "persist_read_wait"]
    /\ UNCHANGED <<authVars, storeVars, envVars, rateVars, cmd, local, rate_lock, command_history,
                   dispatched, responses>>

\* self.audit_log.read().await: in persist_audit_logs (called by log_audit_event
\* under its write guard) and in get_audit_logs
AuditLogRead(t) ==
    /\ pc[t] \in {"persist_read_wait", "query_read_wait"}
    /\ ReadLockFree(audit_lock)
    /\ audit_lock' = [audit_lock EXCEPT !.readers = @ \cup {t}]
    /\ pc' = [pc EXCEPT ![t] = IF pc[t] = "persist_read_wait" THEN "persist" ELSE "query"]
    /\ UNCHANGED <<authVars, storeVars, envVars, rateVars, cmd, local, rate_lock, audit_log,
                   command_history, dispatched, responses>>

\* the CommandHistoryEntry store_command_history builds; timestamp is Utc::now()
\* at that point, before the write guard is asked for
CommandHistoryEntry(c, timestamp, success, details) ==
    [command_id      |-> c.command_id,
     command_type    |-> c.command,
     authorized_user |-> c.authorized_user,
     timestamp       |-> timestamp,
     success         |-> success,
     details         |-> details]

\* store_command_history, up to self.command_history.write().await
BuildHistoryEntry(t) ==
    /\ pc[t] = "store_history"
    /\ local' = [local EXCEPT ![t].timestamp = WallClock]
    /\ pc' = [pc EXCEPT ![t] = "history_write_wait"]
    /\ UNCHANGED <<authVars, storeVars, envVars, rateVars, cmd, rate_lock, audit_lock, audit_log,
                   command_history, dispatched, responses>>

\* mutant of Insert: an entry already stored under the key is kept
Insert_KeepExisting(history, entry) ==
    [k \in DOMAIN history \cup {entry.command_id} |->
       IF k \in DOMAIN history THEN history[k] ELSE entry]

\* HashMap::insert(command_id, entry)
Insert(history, entry) ==
    [k \in DOMAIN history \cup {entry.command_id} |->
       IF k = entry.command_id THEN entry ELSE history[k]]

\* the entries sort_by_key(timestamp) may put first: n keys with the oldest
\* timestamps (the order of equal timestamps is that of the HashMap's iteration)
OldestKeys(history, n) ==
    {R \in SUBSET DOMAIN history :
        /\ Cardinality(R) = n
        /\ \A r \in R : \A k \in DOMAIN history \ R :
             history[r].timestamp <= history[k].timestamp}

\* the key sets the eviction of store_command_history may remove
ToRemove(history) ==
    IF Cardinality(DOMAIN history) > HistoryCapacity
    THEN OldestKeys(history, Cardinality(DOMAIN history) - HistoryCapacity)
    ELSE {{}}

\* store_command_history under the write guard: insert, then evict past the
\* capacity; the guard is dropped on return
StoreCommandHistory(t) ==
    /\ pc[t] = "history_write_wait"
    /\ LET entry == CommandHistoryEntry(cmd[t], local[t].timestamp, local[t].success,
                                        local[t].details)
           inserted == Insert(command_history, entry)
       IN \E R \in ToRemove(inserted) :
            /\ command_history' = [k \in DOMAIN inserted \ R |-> inserted[k]]
            /\ ops' = Append(ops, [task |-> t, op |-> "store_command_history",
                                   arg |-> entry, removed |-> {inserted[k] : k \in R},
                                   result |-> Ok(<<>>)])
    /\ pc' = [pc EXCEPT ![t] = "respond"]
    /\ UNCHANGED <<authVars, rateVars, cmd, local, rate_lock, audit_lock, audit_log,
                   dispatched, responses, encryption_key, key_lock, audit_file, call,
                   pushed, handle, envVars>>

\* Ok(response)
Respond(t) ==
    /\ pc[t] = "respond"
    /\ responses' = [responses EXCEPT ![t] =
                       Append(@, [command_id |-> cmd[t].command_id,
                                  success    |-> local[t].success,
                                  message    |-> local[t].details])]
    /\ pc' = [pc EXCEPT ![t] = "done"]
    /\ UNCHANGED <<authVars, storeVars, envVars, rateVars, cmd, local, rate_lock, audit_lock, audit_log,
                   command_history, dispatched>>

\* a caller asks for the audit log: get_audit_logs waits for the read guard
GetAuditLogs(t) ==
    /\ pc[t] = "idle"
    /\ pc' = [pc EXCEPT ![t] = "query_read_wait"]
    /\ UNCHANGED <<authVars, storeVars, envVars, rateVars, cmd, local, rate_lock, audit_lock, audit_log,
                   command_history, dispatched, responses>>

\* get_audit_logs returns and drops its read guard
GetAuditLogsReturn(t) ==
    /\ pc[t] = "query"
    /\ audit_lock' = [audit_lock EXCEPT !.readers = @ \ {t}]
    /\ pc' = [pc EXCEPT ![t] = "done"]
    /\ UNCHANGED <<authVars, storeVars, envVars, rateVars, cmd, local, rate_lock, audit_log,
                   command_history, dispatched, responses>>

TickExec ==
    /\ Tick(MaxExecTime)
    /\ UNCHANGED <<authVars, storeVars, envVars, commands, calls, execVars>>

Next ==
    \/ \E t \in Tasks : \E c \in ExecCommands : Submit(t, c)
    \/ \E t \in Tasks : RateLimiterWrite(t)
    \/ \E t \in Tasks : RateCheck(t)
    \/ \E t \in Tasks : RateRecord(t)
    \/ \E t \in Tasks : Dispatch(t)
    \/ \E t \in Tasks : LogAuditEvent(t)
    \/ \E t \in Tasks : AuditLogWrite(t)
    \/ \E t \in Tasks : AuditLogRead(t)
    \/ \E t \in Tasks : BuildHistoryEntry(t)
    \/ \E t \in Tasks : StoreCommandHistory(t)
    \/ \E t \in Tasks : Respond(t)
    \/ \E t \in Tasks : GetAuditLogs(t)
    \/ \E t \in Tasks : GetAuditLogsReturn(t)
    \/ TickExec

Spec == Init /\ [][Next]_vars

\* the runtime keeps polling runnable tasks: a step that stays possible is taken
FairSpec == Spec /\ WF_vars(Next)

(***************************************************************************)
(* SpecRate and SpecAuth as specifications over all the variables          *)
(***************************************************************************)
IdleExec ==
    /\ pc = [t \in Tasks |-> "idle"]
    /\ cmd = [t \in Tasks |-> NoCommand]
    /\ local = [t \in Tasks |-> NoLocals]
    /\ rate_lock = Unlocked
    /\ audit_lock = Unlocked
    /\ audit_log = <<>>
    /\ command_history = <<>>
    /\ dispatched = {}
    /\ responses = [t \in Tasks |-> <<>>]

InitRateAll ==
    /\ InitRate
    /\ config = DefaultConfig
    /\ validated = NoValidation
    /\ IdleExec
    /\ IdleStore

NextRate ==
    \/ \E u \in RateUsers : CanExecute(u) /\ UNCHANGED <<authVars, storeVars, envVars, execVars>>
    \/ Tick(MaxTime) /\ UNCHANGED <<authVars, storeVars, envVars, commands, calls, execVars>>

SpecRate == InitRateAll /\ [][NextRate]_vars

InitAuthAll ==
    /\ InitAuth
    /\ commands = EmptyTable
    /\ clock = 0
    /\ calls = <<>>
    /\ IdleExec
    /\ IdleStore

NextAuth == ValidateCommand /\ UNCHANGED <<rateVars, execVars, storeVars, envVars>>

SpecAuth == InitAuthAll /\ [][NextAuth]_vars

(***************************************************************************)
(* SpecCrypto: tasks calling initialize_encryption, encrypt_data and       *)
(* decrypt_data of one SecurityManager                                     *)
(***************************************************************************)
\* the data the callers encrypt
Plaintexts == {<<>>, <<"a">>, <<"b", "a">>}

\* the layout decrypt_data reads: nonce, ciphertext, tag
AeadBlob(key, nonce, data) ==
    LET ciphertext == AesCtr(key, nonce, data)
    IN nonce \o ciphertext \o GcmTag(key, nonce, ciphertext)

\* one byte of a blob overwritten
Tamper(blob, i) == [blob EXCEPT ![i] = "x"]

\* the blobs encrypt_data has returned so far
Returned ==
    {ops[i].result.value : i \in {j \in DOMAIN ops : ops[j].op = "encrypt_data" /\ ops[j].result.ok}}

\* a blob in the layout decrypt_data reads
Sealed(key, data) == AeadBlob(key, [i \in 1..NonceLen |-> "n1"], data)

\* blobs from elsewhere: sealed blobs, a sealed blob with a byte of the nonce, of
\* the ciphertext or of the tag overwritten, and blobs cut short
ForeignBlobs ==
    {Sealed(k, <<"a">>) : k \in Keys}
      \cup {Sealed("key1", <<>>)}
      \cup {Tamper(Sealed("key1", <<"a">>), i) : i \in {1, NonceLen + 1, MinBlobLen + 1}}
      \cup {SubSeq(Sealed("key1", <<"a">>), 1, MinBlobLen - 1), <<>>}

\* what a caller can hand to decrypt_data
DecryptInputs == Returned \cup ForeignBlobs

Pending == {t \in Tasks : call[t] # NoCall}

CanCall(t) ==
    /\ pc[t] = "idle"
    /\ Len(ops) + Cardinality(Pending) < MaxOps

Completed(t, key, rnd, result) ==
    [task |-> t, op |-> call[t].op, arg |-> call[t].arg, key |-> key,
     rnd |-> rnd, result |-> result]

\* a caller calls initialize_encryption: self.encryption_key.write().await
InitializeEncryption(t) ==
    /\ CanCall(t)
    /\ call' = [call EXCEPT ![t] = [op |-> "initialize_encryption", arg |-> <<>>]]
    /\ pc' = [pc EXCEPT ![t] = "key_write_wait"]
    /\ UNCHANGED <<encryption_key, key_lock, ops>>

KeyWrite(t) ==
    /\ pc[t] = "key_write_wait"
    /\ WriteLockFree(key_lock)
    /\ key_lock' = [key_lock EXCEPT !.writer = t]
    /\ pc' = [pc EXCEPT ![t] = "key_init"]
    /\ UNCHANGED <<encryption_key, call, ops>>

\* is_none, generate_encryption_key, the assignment; the guard is dropped on return
KeyInit(t) ==
    /\ pc[t] = "key_init"
    /\ \E rnd \in Keys :
         LET r == initialize_encryption(encryption_key, rnd) IN
         /\ encryption_key' = r.key
         /\ ops' = Append(ops, Completed(t, encryption_key, <<>>, r.result))
    /\ key_lock' = [key_lock EXCEPT !.writer = NoTask]
    /\ call' = [call EXCEPT ![t] = NoCall]
    /\ pc' = [pc EXCEPT ![t] = "idle"]

\* a caller calls encrypt_data: self.encryption_key.read().await
EncryptData(t, data) ==
    /\ CanCall(t)
    /\ call' = [call EXCEPT ![t] = [op |-> "encrypt_data", arg |-> data]]
    /\ pc' = [pc EXCEPT ![t] = "key_read_wait"]
    /\ UNCHANGED <<encryption_key, key_lock, ops>>

\* a caller calls decrypt_data: the length test comes before the lock
DecryptData(t, blob) ==
    /\ CanCall(t)
    /\ IF Len(blob) < MinBlobLen
       THEN /\ ops' = Append(ops, [task |-> t, op |-> "decrypt_data", arg |-> blob,
                                   key |-> encryption_key, rnd |-> <<>>,
                                   result |-> decrypt_data(encryption_key, blob)])
            /\ UNCHANGED <<call, pc>>
       ELSE /\ call' = [call EXCEPT ![t] = [op |-> "decrypt_data", arg |-> blob]]
            /\ pc' = [pc EXCEPT ![t] = "key_read_wait"]
            /\ UNCHANGED ops
    /\ UNCHANGED <<encryption_key, key_lock>>

\* encrypt_data once encryption_key.read().await is granted; the guard is dropped
\* on return
Encrypt(t) ==
    /\ pc[t] = "key_read_wait"
    /\ ReadLockFree(key_lock)
    /\ call[t].op = "encrypt_data"
    /\ \E rnd \in Nonces :
         ops' = Append(ops, Completed(t, encryption_key,
                                      IF encryption_key = NoKey THEN <<>> ELSE rnd,
                                      encrypt_data(encryption_key, rnd, call[t].arg)))
    /\ call' = [call EXCEPT ![t] = NoCall]
    /\ pc' = [pc EXCEPT ![t] = "idle"]
    /\ UNCHANGED <<encryption_key, key_lock>>

\* a caller calls store_encrypted_data("audit_log", data), which calls encrypt_data
StoreEncryptedData(t, data) ==
    /\ CanCall(t)
    /\ call' = [call EXCEPT ![t] = [op |-> "store_encrypted_data", arg |-> data]]
    /\ pc' = [pc EXCEPT ![t] = "key_read_wait"]
    /\ UNCHANGED <<encryption_key, key_lock, ops, audit_file>>

\* encrypt_data(data).await? and then fs::write(file_path, encrypted_data)
StoreEncrypted(t) ==
    /\ pc[t] = "key_read_wait"
    /\ ReadLockFree(key_lock)
    /\ call[t].op = "store_encrypted_data"
    /\ \E rnd \in Nonces :
         LET r == encrypt_data(encryption_key, rnd, call[t].arg) IN
         /\ audit_file' = IF r.ok THEN r.value ELSE audit_file
         /\ ops' = Append(ops, Completed(t, encryption_key,
                                         IF encryption_key = NoKey THEN <<>> ELSE rnd,
                                         IF r.ok THEN Ok(<<>>) ELSE r))
    /\ call' = [call EXCEPT ![t] = NoCall]
    /\ pc' = [pc EXCEPT ![t] = "idle"]
    /\ UNCHANGED <<encryption_key, key_lock>>

\* decrypt_data once encryption_key.read().await is granted
Decrypt(t) ==
    /\ pc[t] = "key_read_wait"
    /\ ReadLockFree(key_lock)
    /\ call[t].op = "decrypt_data"
    /\ ops' = Append(ops, Completed(t, encryption_key, <<>>,
                                    decrypt_data(encryption_key, call[t].arg)))
    /\ call' = [call EXCEPT ![t] = NoCall]
    /\ pc' = [pc EXCEPT ![t] = "idle"]
    /\ UNCHANGED <<encryption_key, key_lock>>

cryptoFrame ==
    <<authVars, rateVars, cmd, local, rate_lock, audit_lock, audit_log, command_history,
      dispatched, responses, pushed, handle, envVars>>

\* a SecurityManager after new(), or one whose key initialize_encryption has set
InitCrypto ==
    /\ config = DefaultConfig
    /\ validated = NoValidation
    /\ InitRate
    /\ IdleExec
    /\ encryption_key \in {NoKey} \cup Keys
    /\ key_lock = Unlocked
    /\ audit_file = NoFile
    /\ call = [t \in Tasks |-> NoCall]
    /\ ops = <<>>
    /\ pushed = <<>>
    /\ handle = NoHandle
    /\ IdleEnv

NextCrypto ==
    \/ \E t \in Tasks : InitializeEncryption(t) /\ UNCHANGED <<cryptoFrame, audit_file>>
    \/ \E t \in Tasks : KeyWrite(t) /\ UNCHANGED <<cryptoFrame, audit_file>>
    \/ \E t \in Tasks : KeyInit(t) /\ UNCHANGED <<cryptoFrame, audit_file>>
    \/ \E t \in Tasks : \E data \in Plaintexts :
         EncryptData(t, data) /\ UNCHANGED <<cryptoFrame, audit_file>>
    \/ \E t \in Tasks : \E blob \in DecryptInputs :
         DecryptData(t, blob) /\ UNCHANGED <<cryptoFrame, audit_file>>
    \/ \E t \in Tasks : \E data \in Plaintexts \ {<<>>} :
         StoreEncryptedData(t, data) /\ UNCHANGED cryptoFrame
    \/ \E t \in Tasks : StoreEncrypted(t) /\ UNCHANGED cryptoFrame
    \/ \E t \in Tasks : Encrypt(t) /\ UNCHANGED <<cryptoFrame, audit_file>>
    \/ \E t \in Tasks : Decrypt(t) /\ UNCHANGED <<cryptoFrame, audit_file>>

SpecCrypto == InitCrypto /\ [][NextCrypto]_vars

(***************************************************************************)
(* SpecStore: tasks calling log_audit_event and get_audit_logs of one      *)
(* SecureStorage                                                           *)
(***************************************************************************)
\* the configurations initialize can install
StoreConfigs == {DefaultConfig, [DefaultConfig EXCEPT !.audit_logging = FALSE]}

\* sort_by_key(|entry| entry.timestamp): a stable sort, oldest first
RECURSIVE SortByTimestamp(_)
SortByTimestamp(entries) ==
    IF Len(entries) <= 1 THEN entries
    ELSE LET front  == SortByTimestamp(SubSeq(entries, 1, Len(entries) - 1))
             last   == entries[Len(entries)]
             before == SelectSeq(front, LAMBDA e : e.timestamp <= last.timestamp)
             after  == SelectSeq(front, LAMBDA e : e.timestamp > last.timestamp)
         IN before \o <<last>> \o after

Reverse(entries) == [i \in 1..Len(entries) |-> entries[Len(entries) + 1 - i]]

\* Option<T>: None is the empty sequence, Some(v) is <<v>>
None == <<>>
Some(v) == <<v>>

\* get_audit_logs(limit, event_type): filter, sort by timestamp, reverse, truncate
get_audit_logs(log, limit, event_type) ==
    LET matching      == IF event_type # None
                         THEN SelectSeq(log, LAMBDA entry : entry.event_type = event_type[1])
                         ELSE log
        filtered_logs == Reverse(SortByTimestamp(matching))
    IN IF limit # None /\ Len(filtered_logs) > limit[1]
       THEN SubSeq(filtered_logs, 1, limit[1]) ELSE filtered_logs

\* the limits and the filters the callers of get_audit_logs pass
QueryLimits == {None, Some(1)}
QueryFilters == {None, Some("command_executed")}

\* the calls that can still complete, and the entries that can still be pushed
CanCallStore(t) ==
    /\ pc[t] = "idle"
    /\ Len(ops) + Cardinality({u \in Tasks : call[u].op = "get_audit_logs"}) < MaxStoreOps

CanPush(t) ==
    /\ pc[t] = "idle"
    /\ Len(pushed) + Cardinality({u \in Tasks : pc[u] = "audit_write_wait"}) < MaxPushes

\* a caller calls log_audit_event: with audit logging disabled it returns Ok at
\* once; otherwise the entry is built and the call waits for audit_log.write()
LogAuditEventCall(t, event_type) ==
    /\ IF config.audit_logging THEN CanPush(t) ELSE CanCallStore(t)
    /\ IF ~config.audit_logging
       THEN /\ ops' = Append(ops, [task |-> t, op |-> "log_audit_event",
                                   arg |-> <<event_type>>, key |-> encryption_key,
                                   rnd |-> <<>>, result |-> Ok(<<>>)])
            /\ UNCHANGED <<pc, call, local>>
       ELSE /\ call' = [call EXCEPT ![t] = [op |-> "log_audit_event",
                                            arg |-> <<event_type>>]]
            /\ local' = [local EXCEPT ![t].now = WallClock]
            /\ pc' = [pc EXCEPT ![t] = "audit_write_wait"]
            /\ UNCHANGED ops
    /\ UNCHANGED <<audit_lock, audit_log, pushed, clock>>

\* audit_log.write().await is granted: push_back and the eviction loop; the next
\* await is persist_audit_logs' audit_log.read(), with the write guard still held
LogAuditEventPush(t) ==
    /\ pc[t] = "audit_write_wait"
    /\ call[t].op = "log_audit_event"
    /\ WriteLockFree(audit_lock)
    /\ audit_lock' = [audit_lock EXCEPT !.writer = t]
    /\ LET entry == AuditLogEntry(call[t].arg[1], StoreDetails, local[t].now) IN
       /\ audit_log' = MaintainMaxSize(Append(audit_log, entry))
       /\ pushed' = Append(pushed, entry)
    /\ pc' = [pc EXCEPT ![t] = "persist_read_wait"]
    /\ UNCHANGED <<call, local, ops, clock>>

\* the caller drops the future of a log_audit_event call that is waiting for a
\* lock: the guards the call holds are released
DropLogAuditEvent(t) ==
    /\ pc[t] \in {"audit_write_wait", "persist_read_wait"}
    /\ call[t].op = "log_audit_event"
    /\ audit_lock' = [writer  |-> IF audit_lock.writer = t THEN NoTask ELSE audit_lock.writer,
                      readers |-> audit_lock.readers \ {t}]
    /\ call' = [call EXCEPT ![t] = NoCall]
    /\ pc' = [pc EXCEPT ![t] = "idle"]
    /\ UNCHANGED <<local, audit_log, pushed, ops, clock>>

\* a caller calls get_audit_logs(limit, event_type): audit_log.read().await
GetAuditLogsCall(t, limit, event_type) ==
    /\ CanCallStore(t)
    /\ call' = [call EXCEPT ![t] = [op |-> "get_audit_logs", arg |-> <<limit, event_type>>]]
    /\ pc' = [pc EXCEPT ![t] = "query_read_wait"]
    /\ UNCHANGED <<local, audit_lock, audit_log, pushed, ops, clock>>

\* get_audit_logs returns the filtered, sorted, truncated copy and drops its read
\* guard
GetAuditLogsResult(t) ==
    /\ pc[t] = "query"
    /\ call[t].op = "get_audit_logs"
    /\ ops' = Append(ops, [task |-> t, op |-> "get_audit_logs", arg |-> call[t].arg,
                           key |-> encryption_key, rnd |-> <<>>, log |-> audit_log,
                           result |-> Ok(get_audit_logs(audit_log, call[t].arg[1],
                                                        call[t].arg[2]))])
    /\ audit_lock' = [audit_lock EXCEPT !.readers = @ \ {t}]
    /\ call' = [call EXCEPT ![t] = NoCall]
    /\ pc' = [pc EXCEPT ![t] = "idle"]
    /\ UNCHANGED <<local, audit_log, pushed, clock>>

storeFrame ==
    <<authVars, commands, calls, cmd, rate_lock, command_history, dispatched, responses,
      encryption_key, key_lock, audit_file, handle, envVars>>

\* a store built by new(), or one on which initialize(config, security) ran with
\* no audit_log.enc present
InitStore ==
    /\ \/ config = DefaultConfig /\ encryption_key = NoKey
       \/ config \in StoreConfigs /\ encryption_key = "key1"
    /\ validated = NoValidation
    /\ InitRate
    /\ IdleExec
    /\ key_lock = Unlocked
    /\ audit_file = NoFile
    /\ call = [t \in Tasks |-> NoCall]
    /\ ops = <<>>
    /\ pushed = <<>>
    /\ handle = NoHandle
    /\ IdleEnv

\* the steps the runtime takes on behalf of the calls
StoreSteps ==
    \/ \E t \in Tasks : LogAuditEventPush(t) /\ UNCHANGED storeFrame
    \/ \E t \in Tasks : AuditLogRead(t)
    \/ \E t \in Tasks : GetAuditLogsResult(t) /\ UNCHANGED storeFrame

\* the callers and the clock
StoreCallers ==
    \/ \E t \in Tasks : \E ev \in EventTypes : LogAuditEventCall(t, ev) /\ UNCHANGED storeFrame
    \/ \E t \in Tasks : DropLogAuditEvent(t) /\ UNCHANGED storeFrame
    \/ \E t \in Tasks : \E limit \in QueryLimits : \E event_type \in QueryFilters :
          GetAuditLogsCall(t, limit, event_type) /\ UNCHANGED storeFrame
    \/ Tick(MaxExecTime) /\ UNCHANGED <<authVars, storeVars, envVars, commands, calls, execVars>>

NextStore == StoreSteps \/ StoreCallers

SpecStore == InitStore /\ [][NextStore]_vars

\* the runtime keeps polling the tasks: a step of a call that stays possible is taken
FairSpecStore == SpecStore /\ WF_vars(StoreSteps)

(***************************************************************************)
(* SpecStartup: SecureStorage::initialize in a new process run, on the     *)
(* audit_log.enc it finds                                                  *)
(***************************************************************************)
\* persist_audit_logs: what it hands to fs::write (or the error it returns)
persist_audit_logs(key, rnd, log) == encrypt_data(key, rnd, to_vec(log))

\* mutant of load_audit_logs: a file that cannot be read is skipped
load_audit_logs_IgnoreFailure(key, file, log) ==
    IF file = NoFile THEN [log |-> log, result |-> Ok(<<>>)]
    ELSE LET decrypted_data == decrypt_data(key, file)
             logs == from_slice(decrypted_data.value)
         IN IF decrypted_data.ok /\ logs.ok
            THEN [log |-> log \o logs.value, result |-> Ok(<<>>)]
            ELSE [log |-> log, result |-> Ok(<<>>)]

\* load_audit_logs: the in-memory log and the result it returns
load_audit_logs(key, file, log) ==
    IF file = NoFile THEN [log |-> log, result |-> Ok(<<>>)]
    ELSE LET decrypted_data == decrypt_data(key, file) IN
         IF ~decrypted_data.ok
         THEN [log |-> log, result |-> Err(decrypted_data.error)]
         ELSE LET logs == from_slice(decrypted_data.value) IN
              IF ~logs.ok
              THEN [log |-> log, result |-> Err(logs.error)]
              ELSE [log |-> log \o logs.value, result |-> Ok(<<>>)]

\* the logs an earlier process run can have held
PriorLogs ==
    {<<>>} \cup {<<e>> : e \in EntryUniverse}
           \cup {<<e1, e2>> : e1 \in EntryUniverse, e2 \in EntryUniverse}

\* what an earlier run's persist_audit_logs wrote, under the key of that run
PersistedFiles ==
    {persist_audit_logs(k, [i \in 1..NonceLen |-> "n1"], log).value :
        k \in Keys, log \in PriorLogs}

\* the files initialize can find: none, a file an earlier run persisted, a blob in
\* the layout decrypt_data reads that holds a serialized log or other data, or
\* such a blob with a byte overwritten
StartupFiles ==
    {NoFile} \cup PersistedFiles
      \cup {Sealed(k, to_vec(log)) : k \in Keys, log \in PriorLogs}
      \cup {Sealed(k, <<"a">>) : k \in Keys}
      \cup {Tamper(Sealed("key1", to_vec(<<e>>)), NonceLen + 2) : e \in EntryUniverse}

\* initialize(config, security): the configuration and the manager are replaced,
\* then initialize_encryption and load_audit_logs run; key is the key the manager
\* passed in holds, rnd what generate_encryption_key draws
Initialize(cfg, key, rnd) ==
    /\ ops = <<>>
    /\ LET keyed  == initialize_encryption(key, rnd)
           loaded == load_audit_logs(keyed.key, audit_file, audit_log)
       IN /\ config' = cfg
          /\ encryption_key' = keyed.key
          /\ audit_log' = loaded.log
          /\ ops' = Append(ops, [task |-> "main", op |-> "initialize", arg |-> audit_file,
                                 key |-> keyed.key, rnd |-> <<>>,
                                 result |-> loaded.result])
    /\ UNCHANGED <<validated, rateVars, pc, cmd, local, rate_lock, audit_lock,
                   command_history, dispatched, responses, key_lock, audit_file, call,
                   pushed, handle, envVars>>

\* a store built by new() in a process that finds one of the files
InitStartup ==
    /\ config = DefaultConfig
    /\ validated = NoValidation
    /\ InitRate
    /\ IdleExec
    /\ encryption_key = NoKey
    /\ key_lock = Unlocked
    /\ audit_file \in StartupFiles
    /\ call = [t \in Tasks |-> NoCall]
    /\ ops = <<>>
    /\ pushed = <<>>
    /\ handle = NoHandle
    /\ IdleEnv

NextStartup ==
    \E cfg \in StoreConfigs : \E key \in {NoKey} \cup Keys : \E rnd \in Keys :
      Initialize(cfg, key, rnd)

SpecStartup == InitStartup /\ [][NextStartup]_vars

(***************************************************************************)
(* SpecClear: tasks calling clear_audit_logs, which wipes audit_log.enc    *)
(* with SecurityManager::secure_wipe_file                                  *)
(***************************************************************************)
\* for _ in 0..3: the passes that write random data
RandomPasses == 3

\* the data of pass n: file_size random bytes in the first passes, then zeros
PassData(n, file_size) ==
    [i \in 1..file_size |-> IF n <= RandomPasses THEN "r" \o ToDecimal(n) ELSE ZeroByte]

\* File::write_all through a handle whose cursor stands after `cursor` bytes: the
\* bytes under the data are overwritten, bytes past the end extend the file
write_all(content, cursor, data) ==
    LET end == IF cursor + Len(data) > Len(content) THEN cursor + Len(data)
               ELSE Len(content)
    IN [i \in 1..end |-> IF i > cursor /\ i <= cursor + Len(data) THEN data[i - cursor]
                         ELSE content[i]]

\* the audit_log.enc files clear_audit_logs can find
WipeFiles == {[i \in 1..n |-> "o"] : n \in 0..MaxFileSize}

\* a caller calls clear_audit_logs: self.audit_log.write().await
ClearAuditLogsCall(t) ==
    /\ pc[t] = "idle"
    /\ Len(ops) + Cardinality({u \in Tasks : pc[u] # "idle"}) < MaxClears
    /\ call' = [call EXCEPT ![t] = [op |-> "clear_audit_logs", arg |-> <<>>,
                                    result |-> Ok(<<>>)]]
    /\ pc' = [pc EXCEPT ![t] = "clear_write_wait"]
    /\ UNCHANGED <<audit_lock, audit_log, audit_file, handle, ops>>

\* the write guard is granted: audit_log.clear(), then clear_persisted_logs tests
\* log_file.exists()
ClearAuditLogs(t) ==
    /\ pc[t] = "clear_write_wait"
    /\ WriteLockFree(audit_lock)
    /\ audit_lock' = [audit_lock EXCEPT !.writer = t]
    /\ audit_log' = <<>>
    /\ \/ /\ pc' = [pc EXCEPT ![t] = IF audit_file = NoFile THEN "clear_return"
                                     ELSE "wipe_open"]
          /\ UNCHANGED call
       \/ \* self.get_storage_path()? fails
          /\ call' = [call EXCEPT ![t].result = Err("io")]
          /\ pc' = [pc EXCEPT ![t] = "clear_return"]
    /\ UNCHANGED <<audit_file, handle, ops>>

\* an I/O call of secure_wipe_file fails: the error goes up through
\* clear_persisted_logs and clear_audit_logs, the handle is dropped
WipeFails(t) ==
    /\ call' = [call EXCEPT ![t].result = Err("io")]
    /\ handle' = [handle EXCEPT !.open = FALSE]
    /\ pc' = [pc EXCEPT ![t] = "clear_return"]
    /\ UNCHANGED audit_file

\* secure_wipe_file: OpenOptions::new().write(true).open(file_path) and
\* file.metadata()?.len()
WipeOpen(t) ==
    /\ pc[t] = "wipe_open"
    /\ \/ /\ handle' = [open |-> TRUE, cursor |-> 0, file_size |-> Len(audit_file),
                         writes |-> <<>>]
          /\ pc' = [pc EXCEPT ![t] = "wipe_write"]
          /\ UNCHANGED <<audit_file, call>>
       \/ WipeFails(t)
    /\ UNCHANGED <<audit_lock, audit_log, ops>>

\* one write_all and flush of secure_wipe_file: the three passes of random data,
\* then the zeros, each file_size bytes long, written where the cursor stands
WipeWrite(t) ==
    /\ pc[t] = "wipe_write"
    /\ LET n    == Len(handle.writes) + 1
           data == PassData(n, handle.file_size)
       IN \/ /\ audit_file' = write_all(audit_file, handle.cursor, data)
             /\ handle' = [handle EXCEPT
                             !.cursor = @ + Len(data),
                             !.writes = Append(@, [offset |-> handle.cursor,
                                                   len    |-> Len(data),
                                                   random |-> n <= RandomPasses])]
             /\ pc' = [pc EXCEPT ![t] = IF n = RandomPasses + 1 THEN "wipe_remove"
                                        ELSE "wipe_write"]
             /\ UNCHANGED call
          \/ WipeFails(t)
    /\ UNCHANGED <<audit_lock, audit_log, ops>>

\* mutant of WipeRemove: the file is left in place
WipeRemove_KeepFile(t) ==
    /\ pc[t] = "wipe_remove"
    /\ handle' = [handle EXCEPT !.open = FALSE]
    /\ pc' = [pc EXCEPT ![t] = "clear_return"]
    /\ UNCHANGED <<audit_file, call, audit_lock, audit_log, ops>>

\* fs::remove_file(file_path), then Ok(())
WipeRemove(t) ==
    /\ pc[t] = "wipe_remove"
    /\ \/ /\ audit_file' = NoFile
          /\ handle' = [handle EXCEPT !.open = FALSE]
          /\ pc' = [pc EXCEPT ![t] = "clear_return"]
          /\ UNCHANGED call
       \/ WipeFails(t)
    /\ UNCHANGED <<audit_lock, audit_log, ops>>

\* clear_audit_logs returns what clear_persisted_logs returned; the write guard
\* is dropped
ClearReturn(t) ==
    /\ pc[t] = "clear_return"
    /\ ops' = Append(ops, [task |-> t, op |-> "clear_audit_logs", arg |-> <<>>,
                           log |-> audit_log, file |-> audit_file,
                           result |-> call[t].result])
    /\ audit_lock' = [audit_lock EXCEPT !.writer = NoTask]
    /\ call' = [call EXCEPT ![t] = NoCall]
    /\ pc' = [pc EXCEPT ![t] = "idle"]
    /\ UNCHANGED <<audit_log, audit_file, handle, envVars>>

clearFrame ==
    <<authVars, rateVars, cmd, local, rate_lock, command_history, dispatched, responses,
      encryption_key, key_lock, pushed, envVars>>

\* a store that holds a log in memory and finds audit_log.enc or not
InitClear ==
    /\ config = DefaultConfig
    /\ validated = NoValidation
    /\ InitRate
    /\ pc = [t \in Tasks |-> "idle"]
    /\ cmd = [t \in Tasks |-> NoCommand]
    /\ local = [t \in Tasks |-> NoLocals]
    /\ rate_lock = Unlocked
    /\ audit_lock = Unlocked
    /\ audit_log \in PriorLogs
    /\ command_history = <<>>
    /\ dispatched = {}
    /\ responses = [t \in Tasks |-> <<>>]
    /\ encryption_key = NoKey
    /\ key_lock = Unlocked
    /\ audit_file \in {NoFile} \cup WipeFiles
    /\ call = [t \in Tasks |-> NoCall]
    /\ ops = <<>>
    /\ pushed = <<>>
    /\ handle = NoHandle
    /\ IdleEnv

NextClear ==
    \/ \E t \in Tasks : ClearAuditLogsCall(t) /\ UNCHANGED clearFrame
    \/ \E t \in Tasks : ClearAuditLogs(t) /\ UNCHANGED clearFrame
    \/ \E t \in Tasks : WipeOpen(t) /\ UNCHANGED clearFrame
    \/ \E t \in Tasks : WipeWrite(t) /\ UNCHANGED clearFrame
    \/ \E t \in Tasks : WipeRemove(t) /\ UNCHANGED clearFrame
    \/ \E t \in Tasks : ClearReturn(t) /\ UNCHANGED clearFrame

SpecClear == InitClear /\ [][NextClear]_vars

(***************************************************************************)
(* SpecHmac: generate_hmac and verify_hmac called on payloads, secrets and *)
(* signatures drawn from bounded sets                                      *)
(***************************************************************************)
HmacPayloads == {"p", "q"}

\* secrets as bytes: two that differ in a byte, two that differ in length only
\* by a zero byte at the end
HmacSecrets == {<<"s">>, <<"t">>, <<"s", ZeroByte>>}

\* the signatures generate_hmac has returned so far
Signed == {ops[i].result : i \in {j \in DOMAIN ops : ops[j].op = "generate_hmac"}}

\* what a caller can pass as expected_hmac: a returned signature, one of them
\* with a character added, the empty string
SignatureInputs == Signed \cup {sig \o "x" : sig \in Signed} \cup {""}

GenerateHmac(data, secret) ==
    /\ Len(ops) < MaxOps
    /\ ops' = Append(ops, [task |-> "main", op |-> "generate_hmac",
                           arg |-> [data |-> data, secret |-> secret],
                           result |-> generate_hmac(data, secret)])

VerifyHmac(data, secret, expected_hmac) ==
    /\ Len(ops) < MaxOps
    /\ ops' = Append(ops, [task |-> "main", op |-> "verify_hmac",
                           arg |-> [data |-> data, secret |-> secret,
                                    expected_hmac |-> expected_hmac],
                           result |-> verify_hmac(data, secret, expected_hmac)])

hmacFrame ==
    <<authVars, rateVars, execVars, encryption_key, key_lock, audit_file, call, pushed,
      handle, envVars>>

NextHmac ==
    \/ \E data \in HmacPayloads : \E secret \in HmacSecrets :
         GenerateHmac(data, secret) /\ UNCHANGED hmacFrame
    \/ \E data \in HmacPayloads : \E secret \in HmacSecrets :
       \E expected_hmac \in SignatureInputs :
         VerifyHmac(data, secret, expected_hmac) /\ UNCHANGED hmacFrame

\* a SecurityManager after new(); generate_hmac and verify_hmac read no field
SpecHmac == InitRateAll /\ [][NextHmac]_vars

(***************************************************************************)
(* SpecHistory: tasks calling store_command_history, as execute_command    *)
(* does for the commands it has executed                                   *)
(***************************************************************************)
\* the executed commands whose outcome is stored: more ids than the capacity
HistoryCommands ==
    {[command |-> k, command_id |-> i, authorized_user |-> "alice",
      timestamp |-> UtcNow, signature |-> ""] :
        <<k, i>> \in {<<"Lock", "ab">>, <<"Ping", "a">>, <<"Ping", "b">>, <<"Ping", "c">>}}

\* execute_command calls store_command_history with the outcome of the action
StoreCommandHistoryCall(t, c) ==
    /\ pc[t] = "idle"
    /\ Len(ops) + Cardinality({u \in Tasks : pc[u] # "idle"}) < MaxStores
    /\ cmd' = [cmd EXCEPT ![t] = c]
    /\ \E o \in ActionOutcomes(c.command) :
         local' = [local EXCEPT ![t].success = o[1], ![t].details = o[2]]
    /\ pc' = [pc EXCEPT ![t] = "store_history"]
    /\ UNCHANGED <<authVars, storeVars, envVars, rateVars, rate_lock, audit_lock, audit_log,
                   command_history, dispatched, responses>>

\* store_command_history has returned Ok(())
StoreCommandHistoryReturn(t) ==
    /\ pc[t] = "respond"
    /\ pc' = [pc EXCEPT ![t] = "idle"]
    /\ UNCHANGED <<authVars, storeVars, envVars, rateVars, cmd, local, rate_lock, audit_lock,
                   audit_log, command_history, dispatched, responses>>

NextHistory ==
    \/ \E t \in Tasks : \E c \in HistoryCommands : StoreCommandHistoryCall(t, c)
    \/ \E t \in Tasks : BuildHistoryEntry(t)
    \/ \E t \in Tasks : StoreCommandHistory(t)
    \/ \E t \in Tasks : StoreCommandHistoryReturn(t)
    \/ TickExec

\* a CommandExecutor after new()
SpecHistory == InitRateAll /\ [][NextHistory]_vars

(***************************************************************************)
(* SpecEmergency: emergency_disable, emergency_enable and                  *)
(* is_emergency_disabled called on one Config (config.rs)                  *)
(***************************************************************************)
\* what the calls can find: dirs::config_dir() may be unknown, the directory may
\* not have been created, an EMERGENCY_DISABLE file may be left from an earlier run
ConfigDirs ==
    {d \in [known : BOOLEAN, exists : BOOLEAN, emergency_file : BOOLEAN] :
        d.emergency_file => d.exists}

\* the outcomes of the file-system calls of emergency_disable and emergency_enable
IoOutcomes == {"ok", "write_fails", "save_fails", "remove_fails"}

\* is_emergency_disabled: false when get_config_dir fails, else
\* emergency_file.exists()
is_emergency_disabled(dir) == dir.known /\ dir.emergency_file

\* emergency_disable: get_config_dir()?, fs::write(emergency_file)?, the consent
\* and feature flags are cleared, self.save()?
EmergencyDisable(io) ==
    /\ Len(ops) < MaxConfigCalls
    /\ io \in {"ok", "write_fails", "save_fails"}
    /\ IF ~config_dir.known
       THEN /\ ops' = Append(ops, [task |-> "main", op |-> "emergency_disable",
                                   arg |-> <<>>,
                                   result |-> Err("Could not determine config directory")])
            /\ UNCHANGED <<config, config_dir>>
       ELSE IF ~config_dir.exists \/ io = "write_fails"
       THEN /\ ops' = Append(ops, [task |-> "main", op |-> "emergency_disable",
                                   arg |-> <<>>, result |-> Err("io")])
            /\ UNCHANGED <<config, config_dir>>
       ELSE /\ config_dir' = [config_dir EXCEPT !.emergency_file = TRUE]
            /\ config' = [config EXCEPT !.remote_commands_enabled = FALSE]
            /\ ops' = Append(ops, [task |-> "main", op |-> "emergency_disable",
                                   arg |-> <<>>,
                                   result |-> IF io = "save_fails" THEN Err("io")
                                              ELSE Ok(<<>>)])

\* mutant of EmergencyEnable: the EMERGENCY_DISABLE file is left in place
EmergencyEnable_KeepFile(io) ==
    /\ Len(ops) < MaxConfigCalls
    /\ io \in {"ok", "remove_fails"}
    /\ ops' = Append(ops, [task |-> "main", op |-> "emergency_enable", arg |-> <<>>,
                           result |-> Ok(<<>>)])
    /\ UNCHANGED <<config, config_dir>>

\* emergency_enable: get_config_dir()?, the file is removed if it exists
EmergencyEnable(io) ==
    /\ Len(ops) < MaxConfigCalls
    /\ io \in {"ok", "remove_fails"}
    /\ IF ~config_dir.known
       THEN /\ ops' = Append(ops, [task |-> "main", op |-> "emergency_enable",
                                   arg |-> <<>>,
                                   result |-> Err("Could not determine config directory")])
            /\ UNCHANGED <<config, config_dir>>
       ELSE IF config_dir.emergency_file /\ io = "remove_fails"
       THEN /\ ops' = Append(ops, [task |-> "main", op |-> "emergency_enable",
                                   arg |-> <<>>, result |-> Err("io")])
            /\ UNCHANGED <<config, config_dir>>
       ELSE /\ config_dir' = [config_dir EXCEPT !.emergency_file = FALSE]
            /\ ops' = Append(ops, [task |-> "main", op |-> "emergency_enable",
                                   arg |-> <<>>, result |-> Ok(<<>>)])
            /\ UNCHANGED config

\* a call of is_emergency_disabled
IsEmergencyDisabled ==
    /\ Len(ops) < MaxConfigCalls
    /\ ops' = Append(ops, [task |-> "main", op |-> "is_emergency_disabled", arg |-> <<>>,
                           result |-> Ok(is_emergency_disabled(config_dir))])
    /\ UNCHANGED <<config, config_dir>>

emergencyFrame ==
    <<validated, rateVars, execVars, encryption_key, key_lock, audit_file, call, pushed,
      handle, monitoring, monitors>>

\* a Config that Config::load or Config::default built
InitEmergency ==
    /\ config \in {DefaultConfig, [DefaultConfig EXCEPT !.remote_commands_enabled = TRUE]}
    /\ validated = NoValidation
    /\ InitRate
    /\ IdleExec
    /\ encryption_key = NoKey
    /\ key_lock = Unlocked
    /\ audit_file = NoFile
    /\ call = [t \in Tasks |-> NoCall]
    /\ ops = <<>>
    /\ pushed = <<>>
    /\ handle = NoHandle
    /\ config_dir \in ConfigDirs
    /\ monitoring = NotMonitoring
    /\ monitors = <<>>

NextEmergency ==
    \/ \E io \in IoOutcomes : EmergencyDisable(io) /\ UNCHANGED emergencyFrame
    \/ \E io \in IoOutcomes : EmergencyEnable(io) /\ UNCHANGED emergencyFrame
    \/ IsEmergencyDisabled /\ UNCHANGED emergencyFrame

SpecEmergency == InitEmergency /\ [][NextEmergency]_vars

(***************************************************************************)
(* SpecJwt: generate_jwt_token and verify_jwt_token called on payloads,    *)
(* secrets and tokens drawn from bounded sets                              *)
(***************************************************************************)
\* the tokens generate_jwt_token has returned so far
Issued == {ops[i].result.value : i \in {j \in DOMAIN ops : ops[j].op = "generate_jwt_token"}}

\* a token over a payload part that is not JSON, signed by a holder of a secret
SignedNotJson(secret) ==
    LET header_b64  == Base64Encode(JwtHeader)
        payload_b64 == Base64Encode(NotJson)
    IN <<header_b64, payload_b64, generate_hmac(header_b64 \o "." \o payload_b64, secret)>>

\* what a caller can pass as token: an issued token; one with the payload part or
\* the signature part of another issued token; one with a character added to the
\* signature; one cut to two parts; a signed token whose payload is not JSON
TokenInputs ==
    Issued
    \cup {<<t[1], u[2], t[3]>> : t \in Issued, u \in Issued}
    \cup {<<t[1], t[2], u[3]>> : t \in Issued, u \in Issued}
    \cup {<<t[1], t[2], t[3] \o "x">> : t \in Issued}
    \cup {<<t[1], t[2]>> : t \in Issued}
    \cup {SignedNotJson(<<"s">>)}

GenerateJwtToken(payload, secret) ==
    /\ Len(ops) < MaxJwtOps
    /\ ops' = Append(ops, [task |-> "main", op |-> "generate_jwt_token",
                           arg |-> [payload |-> payload, secret |-> secret],
                           result |-> generate_jwt_token(payload, secret)])

VerifyJwtToken(token, secret) ==
    /\ Len(ops) < MaxJwtOps
    /\ ops' = Append(ops, [task |-> "main", op |-> "verify_jwt_token",
                           arg |-> [token |-> token, secret |-> secret],
                           result |-> verify_jwt_token(token, secret)])

NextJwt ==
    \/ \E payload \in JwtPayloads : \E secret \in HmacSecrets :
         GenerateJwtToken(payload, secret) /\ UNCHANGED hmacFrame
    \/ \E token \in TokenInputs : \E secret \in HmacSecrets :
         VerifyJwtToken(token, secret) /\ UNCHANGED hmacFrame

\* a SecurityManager after new(); the two functions read no field
SpecJwt == InitRateAll /\ [][NextJwt]_vars

(***************************************************************************)
(* SpecMonitor: callers of EventMonitor::start and EventMonitor::stop and  *)
(* the monitoring tasks they spawn (events.rs, system.rs). A task is       *)
(* [kind, flag, pc, late]: the check it runs, the flag it reads, its       *)
(* position in the loop, and the checks it began while its flag was false  *)
(***************************************************************************)
\* the loops EventMonitor::start spawns after SystemManager::start_monitoring:
\* spawn_login_monitor, spawn_system_health_monitor, spawn_network_monitor
EventMonitors == <<"check_login_events", "check_system_health", "check_network_status">>

\* tokio::spawn(async move { ... }): a task at the head of its loop
Spawned(kind, flag) == [kind |-> kind, flag |-> flag, pc |-> "loop", late |-> 0]

\* the calls made so far, finished or not
CallsOf(name, first) ==
    Cardinality({i \in DOMAIN ops : ops[i].op = name})
      + Cardinality({t \in Tasks : pc[t] \in first})

\* a flag is written: the count of the checks begun while it was false starts anew
Rewritten(flag) ==
    [m \in DOMAIN monitors |->
        IF monitors[m].flag = flag THEN [monitors[m] EXCEPT !.late = 0] ELSE monitors[m]]

\* a caller calls EventMonitor::start: self.monitoring.write().await
StartCall(t) ==
    /\ pc[t] = "idle"
    /\ (CallsOf("start", {"start_write_wait", "start_monitoring", "spawn"}) + 1)
          * (Len(EventMonitors) + 1) <= MaxMonitors
    /\ pc' = [pc EXCEPT ![t] = "start_write_wait"]
    /\ UNCHANGED <<ops, monitoring, monitors>>

\* EventMonitor::start: *monitoring = true; drop(monitoring)
StartEvents(t) ==
    /\ pc[t] = "start_write_wait"
    /\ monitoring.writer = NoTask
    /\ monitoring' = [monitoring EXCEPT !.events = TRUE]
    /\ monitors' = Rewritten("events")
    /\ pc' = [pc EXCEPT ![t] = "start_monitoring"]
    /\ UNCHANGED ops

\* SystemManager::start_monitoring: the flag is set and the task that runs
\* check_user_changes is spawned
StartMonitoring(t) ==
    /\ pc[t] = "start_monitoring"
    /\ monitoring' = [monitoring EXCEPT !.system = TRUE]
    /\ monitors' = Append(Rewritten("system"), Spawned("check_user_changes", "system"))
    /\ pc' = [pc EXCEPT ![t] = "spawn"]
    /\ UNCHANGED ops

\* EventMonitor::start: the three spawn_..._monitor calls, then Ok(())
SpawnMonitors(t) ==
    /\ pc[t] = "spawn"
    /\ monitors' = monitors \o [k \in DOMAIN EventMonitors |->
                                  Spawned(EventMonitors[k], "events")]
    /\ ops' = Append(ops, [task |-> t, op |-> "start", arg |-> <<>>, result |-> Ok(<<>>)])
    /\ pc' = [pc EXCEPT ![t] = "idle"]
    /\ UNCHANGED monitoring

\* a caller calls EventMonitor::stop: self.monitoring.write().await
StopCall(t) ==
    /\ pc[t] = "idle"
    /\ CallsOf("stop", {"stop_write_wait", "stop_monitoring"}) < MaxStops
    /\ pc' = [pc EXCEPT ![t] = "stop_write_wait"]
    /\ UNCHANGED <<ops, monitoring, monitors>>

\* EventMonitor::stop: *monitoring = false; the write guard lives until stop
\* returns
StopEvents(t) ==
    /\ pc[t] = "stop_write_wait"
    /\ monitoring.writer = NoTask
    /\ monitoring' = [monitoring EXCEPT !.events = FALSE, !.writer = t]
    /\ monitors' = Rewritten("events")
    /\ pc' = [pc EXCEPT ![t] = "stop_monitoring"]
    /\ UNCHANGED ops

\* SystemManager::stop_monitoring: *monitoring = false; then EventMonitor::stop
\* returns Ok(()) and its guard is dropped
StopMonitoring(t) ==
    /\ pc[t] = "stop_monitoring"
    /\ monitoring' = [monitoring EXCEPT !.system = FALSE, !.writer = NoTask]
    /\ monitors' = Rewritten("system")
    /\ ops' = Append(ops, [task |-> t, op |-> "stop", arg |-> <<>>, result |-> Ok(<<>>)])
    /\ pc' = [pc EXCEPT ![t] = "idle"]

\* mutant of ReadFlag: the loop goes on whatever the flag is
ReadFlag_IgnoreFlag(m) ==
    /\ m \in DOMAIN monitors
    /\ monitors[m].pc = "loop"
    /\ monitors' = [monitors EXCEPT ![m].pc = "tick"]
    /\ UNCHANGED <<pc, ops, monitoring>>

\* while *monitoring.read().await: the task leaves the loop, and ends, when the
\* flag is false
ReadFlag(m) ==
    /\ m \in DOMAIN monitors
    /\ monitors[m].pc = "loop"
    /\ monitors[m].flag = "events" => monitoring.writer = NoTask
    /\ monitors' = [monitors EXCEPT ![m].pc = IF monitoring[monitors[m].flag] THEN "tick"
                                             ELSE "terminated"]
    /\ UNCHANGED <<pc, ops, monitoring>>

\* interval.tick().await returns and the check begins
IntervalTick(m) ==
    /\ m \in DOMAIN monitors
    /\ monitors[m].pc = "tick"
    /\ monitors' = [monitors EXCEPT ![m].pc = "check",
                                    ![m].late = IF monitoring[monitors[m].flag] THEN 0
                                                ELSE IF @ < 2 THEN @ + 1 ELSE @]
    /\ UNCHANGED <<pc, ops, monitoring>>

\* the check returns (its error is logged) and the loop starts over
CheckDone(m) ==
    /\ m \in DOMAIN monitors
    /\ monitors[m].pc = "check"
    /\ monitors' = [monitors EXCEPT ![m].pc = "loop"]
    /\ UNCHANGED <<pc, ops, monitoring>>

\* the tasks one run can spawn
MonitorIds == 1..MaxMonitors

monitorFrame ==
    <<authVars, rateVars, cmd, local, rate_lock, audit_lock, audit_log, command_history,
      dispatched, responses, encryption_key, key_lock, audit_file, call, pushed, handle,
      config_dir>>

\* the steps of the callers that the runtime takes once the call is made
ControlStep(t) ==
    \/ StartEvents(t) /\ UNCHANGED monitorFrame
    \/ StartMonitoring(t) /\ UNCHANGED monitorFrame
    \/ SpawnMonitors(t) /\ UNCHANGED monitorFrame
    \/ StopEvents(t) /\ UNCHANGED monitorFrame
    \/ StopMonitoring(t) /\ UNCHANGED monitorFrame

\* the steps of a spawned task
MonitorStep(m) ==
    \/ ReadFlag(m) /\ UNCHANGED monitorFrame
    \/ IntervalTick(m) /\ UNCHANGED monitorFrame
    \/ CheckDone(m) /\ UNCHANGED monitorFrame

NextMonitor ==
    \/ \E t \in Tasks : StartCall(t) /\ UNCHANGED monitorFrame
    \/ \E t \in Tasks : StopCall(t) /\ UNCHANGED monitorFrame
    \/ \E t \in Tasks : ControlStep(t)
    \/ \E m \in MonitorIds : MonitorStep(m)

\* an EventMonitor after new()
SpecMonitor == InitRateAll /\ [][NextMonitor]_vars

\* the runtime keeps polling every task: a step of a caller or of a spawned task
\* that stays possible is taken
FairSpecMonitor ==
    /\ SpecMonitor
    /\ \A t \in Tasks : WF_vars(ControlStep(t))
    /\ \A m \in MonitorIds : WF_vars(MonitorStep(m))

(***************************************************************************)
(* Claims about validate_command (SpecAuth)                                *)
(***************************************************************************)
Called == validated.verdict = "called"

\* now - issued_at of the validated command, in ticks
Age == validated.now - validated.command.timestamp

\* C6: with remote-command acceptance disabled, validate_command (and
\* validate_command_permissions) denies every command, whatever the allow-list,
\* the timestamp and the signature are; under Config::default() nothing is accepted.
C6_PolicyDisabledDenies ==
    Called =>
      /\ ~config.remote_commands_enabled =>
           ~validated.accepted /\ ~validated.permitted
      /\ config = DefaultConfig => ~validated.accepted

\* C6 witness: policy disabled, the issuer allow-listed, the command fresh and
\* correctly signed under the configured secret, and the call denied it.
C6_Witness ==
    /\ Called
    /\ ~config.remote_commands_enabled
    /\ validated.command.authorized_user \in config.allowed_users
    /\ Age = 0
    /\ config.hmac_secret = "k1"
    /\ validated.command.signature = ExpectedSignature(validated.command, "k1")
    /\ ~validated.accepted

\* C7: a command whose issuer is not in the allow-list is denied, also when it is
\* fresh and its signature verifies under the configured secret.
C7_UnlistedIssuerDenied ==
    (Called /\ validated.command.authorized_user \notin config.allowed_users)
      => ~validated.accepted

\* C7 witness: policy enabled, issuer outside a non-empty allow-list, fresh, valid
\* signature, denied.
C7_Witness ==
    /\ Called
    /\ config.remote_commands_enabled
    /\ config.allowed_users = {"alice"}
    /\ validated.command.authorized_user = "bob"
    /\ Age = 0
    /\ config.hmac_secret = "k1"
    /\ validated.command.signature = ExpectedSignature(validated.command, "k1")
    /\ ~validated.accepted

\* C8 (as claimed): every command issued more than 300 seconds before the
\* validation is denied, and one exactly 300 seconds old passes the freshness check.
C8_StaleDenied ==
    Called =>
      /\ Age > FreshnessSeconds * SubSecond => ~validated.accepted
      /\ (/\ Age = FreshnessSeconds * SubSecond
          /\ config.remote_commands_enabled
          /\ validated.command.authorized_user \in config.allowed_users
          /\ config.hmac_secret = NoSecret) => validated.accepted

\* C9 (as claimed): every command issued more than 300 seconds after the
\* validation time is denied.
C9_FutureDenied ==
    (Called /\ -Age > FreshnessSeconds * SubSecond) => ~validated.accepted

\* C10: with a secret configured a command is accepted only if its signature is
\* the base64 HMAC of command_id, issuer and decimal unix timestamp under that
\* secret; with no secret the verdict is that of the first three checks, whatever
\* the signature, and get_security_status reports hmac_secret_configured = false.
C10_SignatureChecked ==
    Called =>
      LET c == validated.command IN
      /\ (config.hmac_secret # NoSecret /\ validated.accepted) =>
           c.signature =
             Base64Encode(HmacSha256(config.hmac_secret,
                 c.command_id \o c.authorized_user \o ToDecimal(c.timestamp \div SubSecond)))
      /\ config.hmac_secret # NoSecret => validated.status.hmac_secret_configured
      /\ config.hmac_secret = NoSecret =>
           /\ validated.accepted =
                (/\ config.remote_commands_enabled
                 /\ c.authorized_user \in config.allowed_users
                 /\ Fresh(c, validated.now))
           /\ ~validated.status.hmac_secret_configured

\* C10 witness: a secret is configured and a command signed under it is accepted.
C10_Witness ==
    /\ Called
    /\ config.hmac_secret = "k1"
    /\ validated.command.signature = ExpectedSignature(validated.command, "k1")
    /\ validated.accepted

(***************************************************************************)
(* Claims about RateLimiter::can_execute (SpecRate)                        *)
(***************************************************************************)
\* the calls of user u before call i that were admitted inside the window that
\* trails call i: (now - window_duration, now]
AdmittedInWindowBefore(i) ==
    {j \in 1..(i - 1) : /\ calls[j].user = calls[i].user
                        /\ calls[j].result
                        /\ calls[j].now > calls[i].now - WindowDuration}

\* C3: for every identity and every trailing window (T - window_duration, T], the
\* timestamps in the identity's record, and the admissions ever granted to it,
\* that fall inside the window number at most max_commands.
C3_WindowBound ==
    \A u \in RateUsers : \A T \in 0..(MaxTime + 1) :
      /\ Cardinality({i \in DOMAIN commands[u] :
                        T - WindowDuration < commands[u][i] /\ commands[u][i] <= T})
           <= MaxCommands
      /\ Cardinality({i \in DOMAIN calls :
                        /\ calls[i].user = u /\ calls[i].result
                        /\ T - WindowDuration < calls[i].now /\ calls[i].now <= T})
           <= MaxCommands

\* C3 witness: an identity's record is full, a further call inside the window was
\* denied, and a later call pruned the record and was admitted.
C3_Witness ==
    \E i, j \in DOMAIN calls :
      /\ i < j
      /\ calls[i].user = "alice" /\ calls[j].user = "alice"
      /\ ~calls[i].result
      /\ calls[j].result
      /\ Len(commands["alice"]) = MaxCommands

\* C4: a call is admitted while fewer than N calls of the identity fall inside its
\* trailing window, it is denied when N admissions fall inside that window, and
\* it is admitted again once every earlier admission has left the window.
C4_AdmitDenyRecover ==
    \A i \in DOMAIN calls :
      /\ Cardinality({j \in 1..(i - 1) : /\ calls[j].user = calls[i].user
                                         /\ calls[j].now > calls[i].now - WindowDuration})
           < MaxCommands => calls[i].result
      /\ Cardinality(AdmittedInWindowBefore(i)) >= MaxCommands => ~calls[i].result
      /\ (\A j \in 1..(i - 1) :
            calls[j].user = calls[i].user => calls[j].now <= calls[i].now - WindowDuration)
           => calls[i].result

\* C4 witness: for alice the first N calls at time 0 were admitted, the next call
\* inside the window was denied, and the call after the window passed was admitted.
C4_Witness ==
    /\ Len(calls) = MaxCommands + 2
    /\ \A i \in DOMAIN calls : calls[i].user = "alice"
    /\ \A i \in 1..MaxCommands : calls[i].now = 0 /\ calls[i].result
    /\ calls[MaxCommands + 1].now < WindowDuration
    /\ ~calls[MaxCommands + 1].result
    /\ calls[MaxCommands + 2].now >= WindowDuration
    /\ calls[MaxCommands + 2].result

(***************************************************************************)
(* Claims about execute_command (Spec, FairSpec)                           *)
(***************************************************************************)
\* C1 (as claimed): a platform action is dispatched only for a command that
\* validate_command accepts; a command the authorizer denies is never dispatched.
C1_DispatchOnlyAuthorized ==
    \A d \in dispatched : validate_command(config, d.command, d.now)

\* the response execute_command has returned for the command of task t
Responded(t) ==
    /\ pc[t] = "done"
    /\ Len(responses[t]) = 1
    /\ responses[t][1].command_id = cmd[t].command_id

\* C2 (as claimed): every execute_command call eventually completes with exactly
\* one CommandResponse that carries the submitted command_id.
C2_EveryCallResponds ==
    \A t \in Tasks : (pc[t] = "rate_wait") ~> Responded(t)

\* admissions granted to the tasks for identity u while the admissions already in
\* the record at the start (all at time 0) are inside the window
TaskAdmissions(u) ==
    {i \in DOMAIN calls : /\ calls[i].task \in Tasks
                          /\ calls[i].user = u
                          /\ calls[i].result
                          /\ calls[i].now < WindowDuration}

\* the slots the identity's window had left when the tasks started
SlotsLeft(u) ==
    MaxCommands - Cardinality({i \in DOMAIN calls : calls[i].task = "prior" /\ calls[i].user = u})

\* C5: when k slots remain in an identity's window, at most k of the concurrent
\* check_rate_limit calls for it are admitted, under every interleaving; at most
\* one task is inside can_execute at a time.
C5_AtomicCheckAndRecord ==
    /\ \A u \in RateUsers : Cardinality(TaskAdmissions(u)) <= SlotsLeft(u)
    /\ Cardinality({t \in Tasks : pc[t] \in {"rate_check", "rate_record"}}) <= 1

\* C5 witness: one slot was left for alice, both tasks called check_rate_limit for
\* her while the other was waiting for or holding the limiter, one was admitted
\* and the other denied.
C5_Witness ==
    /\ SlotsLeft("alice") = 1
    /\ \E i, j \in DOMAIN calls :
         /\ calls[i].task \in Tasks /\ calls[j].task \in Tasks
         /\ calls[i].task # calls[j].task
         /\ calls[i].user = "alice" /\ calls[j].user = "alice"
         /\ calls[i].result /\ ~calls[j].result

(***************************************************************************)
(* Claims about the SecurityManager (SpecCrypto)                           *)
(***************************************************************************)
OpsOf(name) == {i \in DOMAIN ops : ops[i].op = name}

\* C20: once initialize_encryption has set the key the key never changes; every
\* later initialize_encryption call, also one racing with the first, returns Ok
\* and leaves the key as it is, so every call of every task ran under one key.
C20_KeySetOnce ==
    /\ [][encryption_key # NoKey => encryption_key' = encryption_key]_vars
    /\ [](\A i \in DOMAIN ops :
            ops[i].key # NoKey =>
              /\ ops[i].key = encryption_key
              /\ ops[i].op = "initialize_encryption" => ops[i].result.ok)

\* C20 witness: two tasks called initialize_encryption at the same time; the call
\* that got the write guard first set the key, the other found it set.
C20_Witness ==
    \E i, j \in OpsOf("initialize_encryption") :
      /\ i + 1 = j
      /\ ops[i].task # ops[j].task
      /\ ops[i].key = NoKey /\ ops[i].result.ok
      /\ ops[j].key # NoKey /\ ops[j].result.ok
      /\ encryption_key = ops[j].key

\* the encrypt_data calls: direct ones and those of store_encrypted_data
Encryptions == OpsOf("encrypt_data") \cup OpsOf("store_encrypted_data")

\* C16 (as claimed): for every plaintext P, the empty one included, and an
\* initialized key, the blob encrypt_data(P) returns has len(P) + 28 bytes in the
\* layout nonce, ciphertext, tag, and decrypt_data of that blob returns exactly P.
C16_RoundTrip ==
    \A i \in OpsOf("encrypt_data") :
      ops[i].result.ok =>
        /\ Len(ops[i].result.value) = Len(ops[i].arg) + NonceLen + TagLen
        /\ ops[i].result.value = AeadBlob(ops[i].key, ops[i].rnd, ops[i].arg)
        /\ \A j \in OpsOf("decrypt_data") :
             (j > i /\ ops[j].arg = ops[i].result.value /\ ops[j].key = ops[i].key)
               => ops[j].result = Ok(ops[i].arg)

\* C17 (as claimed): under one key no two encrypt_data calls use the same nonce.
C17_NoNonceReuse ==
    \A i, j \in Encryptions :
      (i < j /\ ops[i].result.ok /\ ops[j].result.ok /\ ops[i].key = ops[j].key)
        => ops[i].rnd # ops[j].rnd

\* the tag a blob carries is the tag of its nonce and ciphertext under the key
TagVerifies(key, blob) ==
    /\ key # NoKey
    /\ Len(blob) >= NonceLen + TagLen
    /\ SubSeq(blob, Len(blob) - TagLen + 1, Len(blob))
         = GcmTag(key, SubSeq(blob, 1, NonceLen),
                  SubSeq(blob, NonceLen + 1, Len(blob) - TagLen))

\* C18: decrypt_data returns an error for every blob shorter than 28 bytes and
\* for every blob whose tag does not verify under the current key; the data it
\* returns is the whole plaintext that was sealed into the blob under that key.
C18_DecryptRejects ==
    \A i \in OpsOf("decrypt_data") :
      /\ Len(ops[i].arg) < MinBlobLen => ~ops[i].result.ok
      /\ ~TagVerifies(ops[i].key, ops[i].arg) => ~ops[i].result.ok
      /\ ops[i].result.ok =>
           ops[i].arg = AeadBlob(ops[i].key, SubSeq(ops[i].arg, 1, NonceLen),
                                 ops[i].result.value)

\* C18 witness: under one key decrypt_data returned the data of a sealed blob and
\* refused the same blob with its last tag byte overwritten.
C18_Witness ==
    \E i, j \in OpsOf("decrypt_data") :
      /\ ops[i].key = "key1" /\ ops[j].key = "key1"
      /\ ops[i].arg = Sealed("key1", <<"a">>)
      /\ ops[i].result = Ok(<<"a">>)
      /\ ops[j].arg = Tamper(Sealed("key1", <<"a">>), MinBlobLen + 1)
      /\ ~ops[j].result.ok

\* the key the manager held when call i had completed
KeyAfter(i) == IF i < Len(ops) THEN ops[i + 1].key ELSE encryption_key

LastN(seq, n) == IF Len(seq) <= n THEN seq ELSE SubSeq(seq, Len(seq) - n + 1, Len(seq))

\* C11: after any sequence of log_audit_event calls the in-memory log holds at most
\* max_log_entries entries, and they are the most recently pushed ones in the
\* order they were pushed, whatever their severities are.
C11_BoundedFifo ==
    /\ Len(audit_log) <= max_log_entries
    /\ audit_log = LastN(pushed, max_log_entries)

\* C11 witness: more entries than the capacity were pushed, of different
\* severities, the evicted one a Security entry and a retained one an Info entry.
C11_Witness ==
    /\ Len(pushed) > max_log_entries
    /\ Len(audit_log) = max_log_entries
    /\ pushed[1].severity = "Security"
    /\ audit_log[1] = pushed[Len(pushed) - max_log_entries + 1]
    /\ \E i \in DOMAIN audit_log : audit_log[i].severity = "Info"

\* log_audit_event has returned Ok to task t
LogAcknowledged(t) ==
    \E i \in OpsOf("log_audit_event") : ops[i].task = t /\ ops[i].result.ok

\* audit_log.enc decrypts, under the key of the store, to the in-memory log
FileHoldsLog ==
    /\ audit_file # NoFile
    /\ decrypt_data(encryption_key, audit_file) = Ok(to_vec(audit_log))

C13_LogAuditEventReturns ==
    \A t \in Tasks :
      (call[t].op = "log_audit_event")
        ~> (call[t].op # "log_audit_event" /\ LogAcknowledged(t))

(***************************************************************************)
(* Claims about SecureStorage::initialize (SpecStartup)                    *)
(***************************************************************************)
\* C14 (as claimed): when initialize finds a blob that persist_audit_logs wrote
\* in an earlier process run, it returns Ok and the in-memory log holds exactly
\* the persisted entries in their persisted order.
C14_StartupRestore ==
    \A i \in OpsOf("initialize") :
      \A k \in Keys : \A log \in PriorLogs :
        ops[i].arg = persist_audit_logs(k, [n \in 1..NonceLen |-> "n1"], log).value
          => (ops[i].result.ok /\ audit_log = log)

\* a blob that opens under the key and holds a serialized log
Restorable(key, blob) ==
    \E log \in PriorLogs : blob = AeadBlob(key, SubSeq(blob, 1, NonceLen), to_vec(log))

\* C15: when audit_log.enc exists and cannot be decrypted under the key of the
\* store or does not deserialize, initialize returns an error and the in-memory
\* log is left as it was; when it returns Ok the log holds what the file holds.
C15_UnreadableBlobIsFatal ==
    \A i \in OpsOf("initialize") :
      /\ (ops[i].arg # NoFile /\ ~Restorable(ops[i].key, ops[i].arg))
           => (~ops[i].result.ok /\ audit_log = <<>>)
      /\ (ops[i].arg # NoFile /\ ops[i].result.ok)
           => ops[i].arg = AeadBlob(ops[i].key, SubSeq(ops[i].arg, 1, NonceLen),
                                    to_vec(audit_log))

\* C15 witness: initialize found a sealed log with one byte of the ciphertext
\* overwritten, under the very key it was sealed with, and returned an error.
C15_Witness ==
    \E i \in OpsOf("initialize") : \E e \in EntryUniverse :
      /\ ops[i].key = "key1"
      /\ ops[i].arg = Tamper(Sealed("key1", to_vec(<<e>>)), NonceLen + 2)
      /\ ~ops[i].result.ok
      /\ audit_log = <<>>

SameKey(secret1, secret2) ==
    \E n \in 0..1 : \/ secret1 = secret2 \o [k \in 1..n |-> ZeroByte]
                     \/ secret2 = secret1 \o [k \in 1..n |-> ZeroByte]

LastStore(k) ==
    CHOOSE i \in OpsOf("store_command_history") :
      /\ ops[i].arg.command_id = k
      /\ \A j \in OpsOf("store_command_history") : ops[j].arg.command_id = k => j <= i

\* C23: the history holds at most one entry per command_id, filed under that id,
\* and it is the entry of the latest store_command_history call for the id: a
\* resubmitted command_id replaces the entry instead of adding a second one.
C23_HistoryKeyedById ==
    /\ \A k \in DOMAIN command_history :
         /\ command_history[k].command_id = k
         /\ command_history[k] = ops[LastStore(k)].arg
    /\ Cardinality(DOMAIN command_history)
         <= Cardinality({ops[i].arg.command_id : i \in OpsOf("store_command_history")})

\* C23 witness: command_id "ab" was stored twice with different outcomes and the
\* history holds one entry for it, that of the second call.
C23_Witness ==
    \E i, j \in OpsOf("store_command_history") :
      /\ i < j
      /\ ops[i].arg.command_id = "ab" /\ ops[j].arg.command_id = "ab"
      /\ ops[i].arg.success /\ ~ops[j].arg.success
      /\ "ab" \in DOMAIN command_history
      /\ ~command_history["ab"].success
      /\ Cardinality(DOMAIN command_history) = 1

\* C24 (as claimed): after every store_command_history call the history holds at
\* most the capacity; when an insertion pushes it past the capacity the entries
\* removed are those with the oldest timestamps, and the entry just inserted is
\* among the retained ones.
C24_EvictOldestKeepInserted ==
    /\ Cardinality(DOMAIN command_history) <= HistoryCapacity
    /\ \A i \in OpsOf("store_command_history") :
         /\ ops[i].arg \notin ops[i].removed
         /\ i = Len(ops) =>
              \A e \in ops[i].removed : \A k \in DOMAIN command_history :
                e.timestamp <= command_history[k].timestamp

(***************************************************************************)
(* Claims about execute_command end to end (Spec, FairSpec)                *)
(***************************************************************************)
\* the store_command_history calls execute_command made for task t
StoresOf(t) == {i \in OpsOf("store_command_history") : ops[i].task = t}

\* the audit entries log_command wrote for the command of task t
AuditEntriesOf(t) ==
    {i \in DOMAIN audit_log :
        /\ audit_log[i].event_type = "command_executed"
        /\ audit_log[i].details.command_id = cmd[t].command_id
        /\ audit_log[i].details.command_type = cmd[t].command
        /\ audit_log[i].details.authorized_user = cmd[t].authorized_user}

\* the platform action was invoked for the command of task t
Dispatched(t) == \E d \in dispatched : d.task = t

\* C22 (as claimed): with audit logging enabled, a Ping command the rate limiter
\* admitted is answered with success = true and "Pong! Device is responsive", and
\* one history entry for its command_id and an audit entry of type
\* command_executed with severity Security have been added.
C22_PingEndToEnd ==
    \A t \in Tasks :
      (pc[t] = "dispatch" /\ cmd[t].command = "Ping" /\ config.audit_logging)
        ~> (/\ Responded(t)
            /\ responses[t][1].success
            /\ responses[t][1].message = "Pong! Device is responsive"
            /\ Cardinality(StoresOf(t)) = 1
            /\ \E i \in AuditEntriesOf(t) : audit_log[i].severity = "Security")

\* C25 (as claimed): a command the rate limiter denied is answered with
\* success = false and "Rate limit exceeded", no platform action is invoked for
\* it, an audit entry records the denial when audit logging is enabled, and a
\* history entry is recorded for its command_id.
C25_DenialLoggedAndRecorded ==
    \A t \in Tasks :
      (Responded(t) /\ ~local[t].admit) =>
        /\ ~responses[t][1].success
        /\ responses[t][1].message = "Rate limit exceeded"
        /\ ~Dispatched(t)
        /\ config.audit_logging => \E i \in AuditEntriesOf(t) : ~audit_log[i].details.success
        /\ StoresOf(t) # {}

\* C26 (as claimed): the rate limiter is consulted only for commands the
\* authorizer accepts: no can_execute call is made, and no identity's record is
\* touched, for a command validate_command denies.
C26_DeniedSkipsRateLimiter ==
    \A i \in DOMAIN calls :
      calls[i].task \in Tasks =>
        validate_command(config, cmd[calls[i].task], UtcNow + calls[i].now * SubSecond)

\* C27 (as claimed): a rate-limit denial is always returned as a CommandResponse
\* with success = false, and a call whose audit logging cannot be persisted (the
\* manager holds no key) still returns to its caller.
C27_DenialsAreResponses ==
    \A t \in Tasks :
      /\ (pc[t] = "log" /\ ~local[t].admit)
           ~> (Responded(t) /\ ~responses[t][1].success)
      /\ (pc[t] = "persist_read_wait" /\ encryption_key = NoKey)
           ~> (pc[t] # "persist_read_wait")

\* C30: with audit logging disabled the calls of log_audit_event return at once
\* and change nothing: the in-memory log stays empty, no file is written and no
\* task holds or waits for the write guard of the log; an admitted command that was answered
\* was dispatched and has its history entry, and its response carries the outcome.
C30_DisabledLoggingIsNoOp ==
    ~config.audit_logging =>
      /\ audit_log = <<>>
      /\ audit_file = NoFile
      /\ audit_lock.writer = NoTask
      /\ \A t \in Tasks :
           /\ pc[t] \notin {"audit_write_wait", "persist_read_wait", "persist"}
           /\ (Responded(t) /\ local[t].admit) =>
                /\ Dispatched(t)
                /\ Cardinality(StoresOf(t)) = 1
                /\ command_history[cmd[t].command_id].command_id = cmd[t].command_id
                /\ responses[t][1].success = local[t].success
                /\ responses[t][1].message = local[t].details

\* C30 witness: with audit logging disabled both tasks executed a command and were
\* answered, one of them a Ping, and the history holds both command_ids.
C30_Witness ==
    /\ ~config.audit_logging
    /\ \A t \in Tasks : Responded(t) /\ local[t].admit /\ Dispatched(t)
    /\ \E t \in Tasks : responses[t][1].message = "Pong! Device is responsive"
    /\ DOMAIN command_history = {"a", "ab"}
    /\ audit_log = <<>>

(***************************************************************************)
(* Claims about clear_audit_logs and secure_wipe_file (SpecClear)          *)
(***************************************************************************)
\* C28: when clear_audit_logs has returned Ok the in-memory log is empty and
\* audit_log.enc does not exist, so that load_audit_logs restores nothing; when
\* the file is still there on return, because an I/O call of the wipe failed,
\* clear_audit_logs has returned an error.
C28_ClearErasesLogAndBlob ==
    \A i \in OpsOf("clear_audit_logs") :
      /\ ops[i].log = <<>>
      /\ ops[i].result.ok =>
           /\ ops[i].file = NoFile
           /\ audit_log = <<>>
           /\ audit_file = NoFile
           /\ load_audit_logs(encryption_key, audit_file, audit_log).log = <<>>
      /\ ops[i].file # NoFile => ~ops[i].result.ok

\* C28 witness: a store with two entries in memory and a file on disk was
\* cleared: the wipe made its four writes, the file is gone and the call
\* returned Ok.
C28_Witness ==
    /\ \E i \in OpsOf("clear_audit_logs") : ops[i].result.ok
    /\ Len(handle.writes) = RandomPasses + 1
    /\ handle.file_size = MaxFileSize
    /\ audit_file = NoFile
    /\ audit_log = <<>>

\* C29 (as claimed): while secure_wipe_file has the file open the file is never
\* longer than it was, and when the file has been removed every write went over
\* the whole of the original contents: three passes of random data and then one
\* of zeros, each from the first byte to the last.
C29_WipeOverwritesInPlace ==
    /\ handle.open => Len(audit_file) <= handle.file_size
    /\ \A n \in DOMAIN handle.writes :
         /\ handle.writes[n].offset = 0
         /\ handle.writes[n].len = handle.file_size
         /\ handle.writes[n].random = (n <= RandomPasses)

(***************************************************************************)
(* Claims about get_audit_logs (SpecStore)                                  *)
(***************************************************************************)
\* the entries of the log that a filter selects, in the order they were inserted
Matching(log, event_type) ==
    IF event_type = None THEN log
    ELSE SelectSeq(log, LAMBDA entry : entry.event_type = event_type[1])

\* the first n elements of a sequence (all of them when limit is None)
Truncated(seq, limit) ==
    IF limit # None /\ Len(seq) > limit[1] THEN SubSeq(seq, 1, limit[1]) ELSE seq

\* C31 (as claimed): get_audit_logs(limit, filter) returns the entries whose
\* event_type equals the filter (all of them without a filter), the most recently
\* inserted first, whatever their timestamps are, cut to at most limit entries.
C31_NewestInsertedFirst ==
    \A i \in OpsOf("get_audit_logs") :
        ops[i].result.value =
            Truncated(Reverse(Matching(ops[i].log, ops[i].arg[2])), ops[i].arg[1])

(***************************************************************************)
(* Claims about the emergency switch of Config (SpecEmergency)             *)
(***************************************************************************)
\* the emergency_disable and emergency_enable calls made before call i
SwitchesBefore(i) ==
    {j \in 1..(i - 1) : ops[j].op \in {"emergency_disable", "emergency_enable"}}

\* the most recent of them
LastSwitchBefore(i) ==
    CHOOSE j \in SwitchesBefore(i) : \A k \in SwitchesBefore(i) : k <= j

C34_DispatchedIsRecorded ==
    \A t \in Tasks :
      Dispatched(t)
        ~> (/\ StoresOf(t) # {}
            /\ cmd[t].command_id \in DOMAIN command_history
            /\ config.audit_logging =>
                 \E i \in AuditEntriesOf(t) : audit_log[i].severity = "Security")

\* the action provider failed for the command of task t
ProviderFailed(t) ==
    /\ Dispatched(t)
    /\ cmd[t].command \in {"Lock", "Logout", "Status"}
    /\ ~local[t].success

\* C35 (as claimed): when the action provider fails for a Lock, Logout or Status
\* command, execute_command returns Ok with a CommandResponse whose success is
\* false and whose message carries the provider's error detail.
C35_ProviderFailureIsAResponse ==
    \A t \in Tasks :
      ProviderFailed(t)
        ~> (/\ Responded(t)
            /\ ~responses[t][1].success
            /\ responses[t][1].message \in
                  {"Failed to lock screen: <e>", "Failed to logout user: <e>"})

(***************************************************************************)
(* Claims about the effect of can_execute on the table (SpecRate)          *)
(***************************************************************************)
\* the timestamps of a record that are inside the window that ends at now
InWindow(times, now) == SelectSeq(times, LAMBDA time : now - time < WindowDuration)

\* C36: a can_execute call that denies leaves in the identity's record exactly
\* the timestamps that were inside the window, a call that admits leaves these
\* followed by one timestamp equal to now, and the records of all other
\* identities are unchanged.
C36_DenyRecordsNothing ==
    [][\A u \in RateUsers :
         CanExecute(u) =>
           /\ commands'[u] = IF calls'[Len(calls')].result
                             THEN Append(InWindow(commands[u], clock), clock)
                             ELSE InWindow(commands[u], clock)
           /\ \A v \in RateUsers \ {u} : commands'[v] = commands[v]]_vars

\* C36 witness: the last call was denied at a time when the oldest admission of
\* its identity had left the window: the record was pruned, nothing was added,
\* and the other identity has a record.
C36_Witness ==
    /\ calls # <<>>
    /\ LET last == calls[Len(calls)] IN
         /\ ~last.result
         /\ Len(commands[last.user]) = MaxCommands
         /\ \A k \in DOMAIN commands[last.user] : commands[last.user][k] < last.now
         /\ \E i \in DOMAIN calls :
              /\ calls[i].user = last.user /\ calls[i].result
              /\ last.now - calls[i].now >= WindowDuration
         /\ \E v \in RateUsers \ {last.user} : commands[v] # <<>>

(***************************************************************************)
(* Claims about what the signature of a command covers (SpecAuth)          *)
(***************************************************************************)
\* C37: the verdict of validate_command, and that of
\* validate_command_permissions, is the same for every command that differs from
\* the validated one in its kind only.
C37_VerdictIgnoresKind ==
    Called =>
      \A kind \in CommandType :
        LET c == [validated.command EXCEPT !.command = kind] IN
        /\ validate_command(config, c, validated.now) = validated.accepted
        /\ validate_command_permissions(config, c) = validated.permitted

\* C37 witness: a signed Ping was accepted under a configured secret (and so is
\* the Logout with the same id, issuer, time and signature).
C37_Witness ==
    /\ Called
    /\ config.hmac_secret = "k1"
    /\ validated.command.command = "Ping"
    /\ validated.command.signature = ExpectedSignature(validated.command, "k1")
    /\ validated.accepted
    /\ validated.permitted

\* the (command_id, issuer, unix timestamp) triple of a command
Triple(c) == <<c.command_id, c.authorized_user, Timestamp(c.timestamp)>>

\* C39 (as claimed): the signature of an accepted command is the signature of no
\* command with another (command_id, issuer, unix timestamp) triple: a signature
\* valid for one triple is never accepted for a different one.
C39_PayloadInjective ==
    (Called /\ config.hmac_secret # NoSecret /\ validated.accepted) =>
      \A u \in Unsigned :
        Triple(u) # Triple(validated.command) =>
          validated.command.signature # ExpectedSignature(u, config.hmac_secret)

(***************************************************************************)
(* Claims about a resubmitted command (Spec, FairSpec)                     *)
(***************************************************************************)
\* the rate limiter admitted the command of task t
Admitted(t) == \E i \in DOMAIN calls : calls[i].task = t /\ calls[i].result

\* the tasks have submitted one and the same command and all were admitted
Resubmitted ==
    \A t, u \in Tasks : cmd[t] # NoCommand /\ cmd[t] = cmd[u] /\ Admitted(t)

\* C40 (as claimed): a command submitted twice within the rate limit is
\* processed twice: the platform action is invoked for each submission, each
\* consumed a slot of the issuer, each is answered, two audit entries are
\* appended (when audit logging is enabled), and the history keeps one entry
\* under the command_id.
C40_ResubmissionProcessedTwice ==
    Resubmitted
      ~> (/\ \A t \in Tasks : Dispatched(t) /\ Admitted(t) /\ Responded(t)
          /\ \A t \in Tasks :
               /\ cmd[t].command_id \in DOMAIN command_history
               /\ config.audit_logging =>
                    Cardinality(AuditEntriesOf(t)) = Cardinality(Tasks))

(***************************************************************************)
(* Claims about the monitoring loops (SpecMonitor, FairSpecMonitor)        *)
(***************************************************************************)
\* task m has been spawned and the flag it reads is false
Stopped(m) == m \in DOMAIN monitors /\ ~monitoring[monitors[m].flag]

\* task m has left its loop
Terminated(m) == m \in DOMAIN monitors /\ monitors[m].pc = "terminated"

\* C38: once the flag a monitoring task reads is false and stays false, the task
\* begins at most one more check and then terminates; a task leaves its loop
\* only at the head of an iteration: a tick that was awaited is followed by the
\* check, and a check that has begun runs to its end.
C38_CooperativeStop ==
    /\ [](\A m \in MonitorIds : Stopped(m) => monitors[m].late <= 1)
    /\ [][\A m \in DOMAIN monitors :
            /\ monitors[m].pc = "tick" => monitors'[m].pc \in {"tick", "check"}
            /\ monitors[m].pc = "check" => monitors'[m].pc \in {"check", "loop"}
            /\ monitors'[m].pc = "terminated" =>
                 monitors[m].pc \in {"loop", "terminated"}]_vars
    /\ \A m \in MonitorIds : (<>[]Stopped(m)) => <>Terminated(m)

\* C38 witness: stop has returned while a task was waiting for its tick; the task
\* ran that one check, read the flag and terminated.
C38_Witness ==
    /\ \E i \in DOMAIN ops : ops[i].op = "stop"
    /\ \E m \in DOMAIN monitors :
         /\ monitors[m].kind = "check_login_events"
         /\ monitors[m].late = 1
         /\ Terminated(m)
         /\ Stopped(m)

====
